---- MODULE Spec2Model ----
(***************************************************************************)
(* Event-based activity tracking of the desktop shell                      *)
(* (apps/desktop/src-tauri): the ActivityTracker session state machine     *)
(* (activity_tracker.rs), the poll loop spawned by                         *)
(* start_event_based_tracking and the tracking commands (commands.rs),     *)
(* and the AppState wrapper (state.rs).                                    *)
(*                                                                         *)
(* Every step of a task is one critical section of the tracker's mutexes   *)
(* or one await point, so that tasks interleave exactly where the tokio    *)
(* runtime lets them.  Option<T> is a sequence of length 0 (None) or 1     *)
(* (Some(x)).  Time is counted in clock units of 1/TicksPerSec second.     *)
(***************************************************************************)
EXTENDS Integers, Sequences, FiniteSets, TLC

\* ------------------------------------------------------------ bounds
\* Clock units per second (sub-second resolution of Utc::now()).
TicksPerSec == 2
\* Last clock value of a run, in clock units.
MaxTime == 3
\* Number of poll-loop tasks that can be alive at once.
MaxLoops == 2

\* Last clock value, in seconds, of the runs whose clock steps by whole seconds.
MaxSeconds == 2

\* ------------------------------------------------------------ constants
\* ActivityState::default / ActivityTracker::new: 5 minutes.
DefaultIdleThreshold == 300
\* finalize_session: "Only count sessions longer than 1 second".
MinDuration == 1

None == <<>>
Some(x) == <<x>>
IsSome(o) == Len(o) = 1
Unwrap(o) == o[1]

\* ------------------------------------------------------------ input domains
AppNames == {"Editor", "Chrome"}
WindowTitles == {"main.go", "README.md"}
\* the bundle identifier the probe reports for an application (None when missing).
BundleId(app) == IF app = "Chrome" THEN Some("com.google.Chrome") ELSE None
\* idle durations (seconds) the probe can report.
IdleValues == {0, 2, 300}
\* idle thresholds (seconds) a caller can configure.
Thresholds == {2, 300}
\* a poll interval (milliseconds) of a working configuration.
PollInterval == 1000
\* poll intervals a caller can pass in a PollingConfig.
PollIntervals == {0, PollInterval}
\* outcome of one HTTP delivery: Ok(()) or Err(message).
SendOutcomes == {"Ok", "Failed to send session"}

Loops == 1..MaxLoops
\* process id of the finalize_current_session command task.
Cmd == 0
Procs == {Cmd} \cup Loops

\* str::contains: t occurs in s as a contiguous, case-sensitive substring.
contains(s, t) ==
    \E i \in 0..(Len(s) - Len(t)) : SubSeq(s, i + 1, i + Len(t)) = t

\* the browser_names and browser_bundles arrays of is_browser_app
browser_names ==
    {"Google Chrome", "Chrome", "Safari", "Firefox", "Microsoft Edge",
     "Brave Browser", "Arc", "Opera", "Vivaldi", "Chromium"}
browser_bundles ==
    {"com.google.Chrome", "com.apple.Safari", "org.mozilla.firefox",
     "com.microsoft.edgemac", "com.brave.Browser", "company.thebrowser.Browser",
     "com.operasoftware.Opera", "com.vivaldi.Vivaldi"}

\* is_browser_app looking at the application name only
is_browser_app_name_only(app_name, bundle_id) ==
    \E b \in browser_names : contains(app_name, b)

\* is_browser_app
is_browser_app(app_name, bundle_id) ==
    \/ \E b \in browser_names : contains(app_name, b)
    \/ /\ IsSome(bundle_id)
       /\ \E b \in browser_bundles : contains(Unwrap(bundle_id), b)

\* NativeActivity values the probe can return.
NativeActivity ==
    { [app_name |-> a, window_title |-> w, bundle_id |-> b,
       is_browser |-> is_browser_app(a, b), idle_seconds |-> i] :
         a \in AppNames, w \in WindowTitles, b \in {None, Some("com.google.Chrome")},
         i \in IdleValues }

\* what the probe of this run returns: an application has one bundle identifier
Snapshots == { n \in NativeActivity : n.bundle_id = BundleId(n.app_name) }

\* ------------------------------------------------------------ time
\* DateTime<Utc>::to_rfc3339: whole seconds and the sub-second fraction.
to_rfc3339(t) == [secs |-> t \div TicksPerSec, frac |-> t % TicksPerSec]
\* the instant an RFC 3339 string denotes, in clock units.
parse_rfc3339(s) == s.secs * TicksPerSec + s.frac
\* chrono::Duration::num_seconds: whole seconds, truncated toward zero.
num_seconds(d) == IF d >= 0 THEN d \div TicksPerSec ELSE -((-d) \div TicksPerSec)

VARIABLES
    now,          \* Utc::now(), in clock units
    state,        \* ActivityTracker.state: ActivityState
    event_state,  \* ActivityTracker.event_state: EventTrackerState
    app_state,    \* AppStateWrapper.state: AppState
    store,        \* the "activity-polling.json" store: its "config" key
    pc,           \* position of each task
    activity,     \* the `activity` binding of each loop's tick
    idle_threshold, \* the `idle_threshold` captured by each loop at spawn
    session,      \* the `session` binding (Option<CompletedSession>) of each task
    handed,       \* times the current `session` value was passed to send_session_to_backend
    send_result,  \* the Result the last send_session_to_backend(..).await returned
    produced,     \* number of CompletedSessions finalize_session has returned
    AW_SERVER_PROCESS, \* aw_server.rs: the static Mutex<Option<Child>>
    children,     \* the aw-server-rust processes this program has spawned
    aw_call       \* the last aw_server function called and what it returned

\* the aw-server-rust sidecar and its process slot
aw_server == <<AW_SERVER_PROCESS, children, aw_call>>

vars == <<now, state, event_state, app_state, store, pc, activity, idle_threshold,
          session, handed, send_result, produced, aw_server>>

\* ------------------------------------------------------------ ActivityTracker
\* ActivityState::default.  current_activity and last_update are written for
\* display only and read by no operation: they are not represented.
ActivityState_default ==
    [is_tracking |-> TRUE, is_idle |-> FALSE,
     idle_threshold_seconds |-> DefaultIdleThreshold]

\* ActivityTracker::new with a count of sessions that does not start at zero
EventTrackerState_new_counted ==
    [current_session |-> None, is_tracking |-> TRUE, is_idle |-> FALSE,
     idle_threshold_seconds |-> DefaultIdleThreshold, sessions_sent |-> 1,
     last_send_error |-> None]

\* ActivityTracker::new, the event_state field
EventTrackerState_new ==
    [current_session |-> None, is_tracking |-> TRUE, is_idle |-> FALSE,
     idle_threshold_seconds |-> DefaultIdleThreshold, sessions_sent |-> 0,
     last_send_error |-> None]

\* AppState::default.  The focus-mode fields and the displayed application,
\* title, category and idle_seconds are read by no tracking operation: they are
\* not represented.
AppState_default ==
    [tracking_active |-> TRUE, paused |-> FALSE, is_idle |-> FALSE]

\* has_activity_changed comparing the application only
has_activity_changed_app_only(es, new_activity) ==
    IF IsSome(es.current_session)
    THEN Unwrap(es.current_session).app_name # new_activity.app_name
    ELSE TRUE

\* has_activity_changed comparing the bundle identifier as well
has_activity_changed_with_bundle(es, new_activity) ==
    IF IsSome(es.current_session)
    THEN \/ Unwrap(es.current_session).app_name # new_activity.app_name
         \/ Unwrap(es.current_session).window_title # new_activity.window_title
         \/ Unwrap(es.current_session).bundle_id # new_activity.bundle_id
    ELSE TRUE

\* has_activity_changed
has_activity_changed(es, new_activity) ==
    IF IsSome(es.current_session)
    THEN \/ Unwrap(es.current_session).app_name # new_activity.app_name
         \/ Unwrap(es.current_session).window_title # new_activity.window_title
    ELSE TRUE

\* start_session that leaves last_heartbeat at the epoch
start_session_epoch_heartbeat(es, a, t) ==
    [es EXCEPT !.current_session =
                   Some([app_name |-> a.app_name, window_title |-> a.window_title,
                         bundle_id |-> a.bundle_id, is_browser |-> a.is_browser,
                         start_time |-> t, last_heartbeat |-> 0]),
               !.is_idle = FALSE]

\* start_session without `event_state.is_idle = false`
start_session_keeps_idle(es, a, t) ==
    [es EXCEPT !.current_session =
                   Some([app_name |-> a.app_name, window_title |-> a.window_title,
                         bundle_id |-> a.bundle_id, is_browser |-> a.is_browser,
                         start_time |-> t, last_heartbeat |-> t])]

\* start_session: the EventTrackerState it leaves
start_session(es, a, t) ==
    [es EXCEPT !.current_session =
                   Some([app_name |-> a.app_name, window_title |-> a.window_title,
                         bundle_id |-> a.bundle_id, is_browser |-> a.is_browser,
                         start_time |-> t, last_heartbeat |-> t]),
               !.is_idle = FALSE]

\* update_heartbeat that also moves start_time
update_heartbeat_restarts(es, t) ==
    IF IsSome(es.current_session)
    THEN [es EXCEPT !.current_session = Some([Unwrap(es.current_session) EXCEPT
                                                  !.last_heartbeat = t,
                                                  !.start_time = t])]
    ELSE es

\* update_heartbeat: the EventTrackerState it leaves
update_heartbeat(es, t) ==
    IF IsSome(es.current_session)
    THEN [es EXCEPT !.current_session = Some([Unwrap(es.current_session) EXCEPT
                                                  !.last_heartbeat = t])]
    ELSE es

\* finalize_session reading the session without take(): it stays in the state
finalize_taken_peek(es) == es

\* finalize_session that also clears the idle flag
finalize_taken_clears_idle(es) == [es EXCEPT !.current_session = None, !.is_idle = FALSE]

\* finalize_session: the session is taken out of the state
finalize_taken(es) == [es EXCEPT !.current_session = None]

\* the duration measured up to the last heartbeat instead of the end time
finalize_duration_heartbeat(s, end_time) == num_seconds(s.last_heartbeat - s.start_time)

\* finalize_session: the duration it computes for a live session
finalize_duration(s, end_time) == num_seconds(end_time - s.start_time)

\* finalize_session without the minimum duration: `duration >= 0`
finalize_session_keeps_short(es, end_time) ==
    IF IsSome(es.current_session)
    THEN LET s == Unwrap(es.current_session)
             duration == finalize_duration(s, end_time)
         IN  IF duration >= 0
             THEN Some([app_name |-> s.app_name, window_title |-> s.window_title,
                        url |-> None, start_time |-> to_rfc3339(s.start_time),
                        end_time |-> to_rfc3339(end_time), duration |-> duration,
                        source |-> "native_event"])
             ELSE None
    ELSE None

\* finalize_session: the Option<CompletedSession> it returns
finalize_session(es, end_time) ==
    IF IsSome(es.current_session)
    THEN LET s == Unwrap(es.current_session)
             duration == finalize_duration(s, end_time)
         IN  IF duration >= MinDuration
             THEN Some([app_name |-> s.app_name, window_title |-> s.window_title,
                        url |-> None, start_time |-> to_rfc3339(s.start_time),
                        end_time |-> to_rfc3339(end_time), duration |-> duration,
                        source |-> "native_event"])
             ELSE None
    ELSE None

\* record_send_success
record_send_success(es) ==
    [es EXCEPT !.sessions_sent = @ + 1, !.last_send_error = None]

\* record_send_error that counts the failed delivery as sent
record_send_error_counts(es, error) ==
    [es EXCEPT !.sessions_sent = @ + 1, !.last_send_error = Some(error)]

\* record_send_error
record_send_error(es, error) == [es EXCEPT !.last_send_error = Some(error)]

\* the match on the delivery result in the loop's idle and change paths
record_outcome(es, r) ==
    IF r = "Ok" THEN record_send_success(es) ELSE record_send_error(es, r)

\* get_current_activity binding the guard (`let state = self.state.lock()`):
\* it lives until the method returns, across the OS probe
guards_held_across_probe(position) ==
    IF position = "probe" THEN {"state"} ELSE {}

\* positions of a thread inside set_tracking(enabled) and
\* set_idle_threshold(seconds): the state guard is taken and the state copy
\* written, the event_state mutex is locked next.
InSetTracking(enabled) ==
    IF enabled THEN "set_tracking_true" ELSE "set_tracking_false"
InSetIdleThreshold(seconds) == "set_idle_threshold_" \o ToString(seconds)
SetterPcs ==
    {InSetTracking(enabled) : enabled \in BOOLEAN}
      \cup {InSetIdleThreshold(seconds) : seconds \in Thresholds}

\* handle_idle and handle_active that keep their event_state guard while they
\* call finalize_session / start_session (no `drop(event_state)`)
guards_held_without_drop(position) ==
    IF position \in SetterPcs THEN {"state"}
    ELSE IF position \in {"handle_idle_finalize", "handle_active_start"}
         THEN {"event_state"}
         ELSE {}

\* set_tracking and set_idle_threshold that drop the state guard before they
\* lock event_state
guards_held_setters_unnested(position) == {}

\* The MutexGuards a task holds while it is at a position.  Every guard is a
\* local of one ActivityTracker / AppStateWrapper method, or the temporary of
\* get_current_activity's `if` condition, and is dropped before the method
\* probes, returns or (handle_idle, handle_active) calls the next method; the
\* positions of the loop and of the commands lie between such calls, so no
\* guard is alive at any of them.  Inside set_tracking and set_idle_threshold
\* the state guard is alive while event_state is locked.
guards_held(position) ==
    IF position \in SetterPcs THEN {"state"} ELSE {}

\* the mutex the next step of a thread at a position locks
acquires(position) ==
    IF position \in SetterPcs \cup {"handle_idle_finalize", "handle_active_start"}
    THEN {"event_state"}
    ELSE {}

\* Mutex::lock returns: no thread, the caller included, holds a guard of m
Free(m) == \A q \in Procs : m \notin guards_held(pc[q])

\* self.state.lock() / self.event_state.lock() return at once
Unlocked == \A p \in Procs : guards_held(pc[p]) = {}

\* set_tracking that finalizes on disabling: the live session is cleared
set_tracking_finalizes(enabled) ==
    /\ Unlocked
    /\ state' = [state EXCEPT !.is_tracking = enabled]
    /\ event_state' = [event_state EXCEPT !.is_tracking = enabled,
                                          !.current_session =
                                              IF enabled THEN @ ELSE None]

\* set_tracking: both copies are written while the state mutex is held
set_tracking(enabled) ==
    /\ Unlocked
    /\ state' = [state EXCEPT !.is_tracking = enabled]
    /\ event_state' = [event_state EXCEPT !.is_tracking = enabled]

\* set_idle_threshold: both copies are written while the state mutex is held
set_idle_threshold(seconds) ==
    /\ Unlocked
    /\ state' = [state EXCEPT !.idle_threshold_seconds = seconds]
    /\ event_state' = [event_state EXCEPT !.idle_threshold_seconds = seconds]

\* ------------------------------------------------------------ aw_server
\* aw-server-rust processes the runs may spawn
MaxChildren == 4
Children == 1..MaxChildren

\* AW_SERVER_PROCESS starts as None; no process has been spawned
aw_server_new ==
    /\ AW_SERVER_PROCESS = None
    /\ children = [c \in Children |-> "unspawned"]
    /\ aw_call = None

\* ------------------------------------------------------------ initial state
Init ==
    /\ now = 0
    /\ state = ActivityState_default
    /\ event_state = EventTrackerState_new
    /\ app_state = AppState_default
    /\ store = [config |-> None]
    /\ pc = [p \in Procs |-> IF p = Cmd THEN "ready" ELSE "unspawned"]
    /\ activity = [l \in Loops |-> None]
    /\ idle_threshold = [l \in Loops |-> 0]
    /\ session = [p \in Procs |-> None]
    /\ handed = [p \in Procs |-> 0]
    /\ send_result = None
    /\ produced = 0
    /\ aw_server_new

Goto(p, label) == pc' = [pc EXCEPT ![p] = label]

\* the loop's local `session` is bound to what a finalize call returned
Bind(p, result) ==
    /\ session' = [session EXCEPT ![p] = result]
    /\ handed' = [handed EXCEPT ![p] = 0]
    /\ produced' = IF IsSome(result) THEN produced + 1 ELSE produced

\* send_session_to_backend(.., session) is called: the request is in flight
Hand(p) == handed' = [handed EXCEPT ![p] = @ + 1]

\* the `session` binding goes out of scope
Drop(p) == session' = [session EXCEPT ![p] = None]

\* send_session_to_backend(..).await returns r
Returned(r) == send_result' = Some(r)

\* the process is running: app.exit has not been called
Running == pc[Cmd] # "exited"

LoopLive(l) == pc[l] \notin {"unspawned", "stopped", "panicked"}
\* a tick body is between its interval tick and the end of the loop body
InTick(l) == pc[l] \notin {"unspawned", "stopped", "panicked", "tick"}

\* ------------------------------------------------------------ commands
\* the first position of a spawned loop task: tokio::time::interval panics on
\* a period of zero, and the task ends before its first tick
spawned(poll_interval_ms) == IF poll_interval_ms = 0 THEN "panicked" ELSE "tick"

\* start_event_based_tracking: store the config, configure the tracker, spawn
\* the loop task.  `saved` is the outcome of store.save().  Of the stored
\* PollingConfig the poll interval is kept.
start_event_based_tracking(poll_interval_ms, seconds, saved) ==
    /\ Running
    /\ store' = [store EXCEPT !.config = Some([poll_interval_ms |-> poll_interval_ms])]
    /\ IF saved
       THEN /\ Unlocked
            /\ \E l \in Loops :
                 /\ ~LoopLive(l)
                 /\ \A k \in Loops : k < l => LoopLive(k)
                 /\ Goto(l, spawned(poll_interval_ms))
                 /\ idle_threshold' = [idle_threshold EXCEPT ![l] = seconds]
            /\ state' = [state EXCEPT !.idle_threshold_seconds = seconds,
                                      !.is_tracking = TRUE]
            /\ event_state' = [event_state EXCEPT !.idle_threshold_seconds = seconds,
                                                  !.is_tracking = TRUE]
       ELSE UNCHANGED <<state, event_state, pc, idle_threshold>>
    /\ UNCHANGED <<now, app_state, activity, session, handed, send_result, produced,
                   aw_server>>

\* stop_activity_polling
stop_activity_polling(saved) ==
    /\ Running
    /\ IF saved THEN set_tracking(FALSE) ELSE UNCHANGED <<state, event_state>>
    /\ UNCHANGED <<now, app_state, store, pc, activity, idle_threshold, session,
                   handed, send_result, produced, aw_server>>

\* set_native_tracking
set_native_tracking(enabled) ==
    /\ Running
    /\ set_tracking(enabled)
    /\ UNCHANGED <<now, app_state, store, pc, activity, idle_threshold, session,
                   handed, send_result, produced, aw_server>>

\* set_idle_threshold (the command)
set_idle_threshold_command(seconds) ==
    /\ Running
    /\ set_idle_threshold(seconds)
    /\ UNCHANGED <<now, app_state, store, pc, activity, idle_threshold, session,
                   handed, send_result, produced, aw_server>>

\* finalize_current_session, up to the store lookup
finalize_current_session ==
    /\ pc[Cmd] = "ready"
    /\ event_state' = finalize_taken(event_state)
    /\ Bind(Cmd, finalize_session(event_state, now))
    /\ Goto(Cmd, IF IsSome(finalize_session(event_state, now)) THEN "cmd_send" ELSE "ready")
    /\ UNCHANGED <<now, state, app_state, store, activity, idle_threshold,
                   send_result, aw_server>>

\* finalize_current_session: store.get("config"), then the delivery is started
finalize_current_session_send ==
    /\ pc[Cmd] = "cmd_send"
    /\ IF IsSome(store.config)
       THEN Hand(Cmd) /\ Goto(Cmd, "cmd_await") /\ UNCHANGED session
       ELSE Drop(Cmd) /\ Goto(Cmd, "ready") /\ UNCHANGED handed
    /\ UNCHANGED <<now, state, event_state, app_state, store, activity,
                   idle_threshold, send_result, produced, aw_server>>

\* finalize_current_session: the delivery completes, `let _ =` drops its result
finalize_current_session_await(r) ==
    /\ pc[Cmd] = "cmd_await"
    /\ Returned(r)
    /\ Drop(Cmd)
    /\ Goto(Cmd, "ready")
    /\ UNCHANGED <<now, state, event_state, app_state, store, activity,
                   idle_threshold, handed, produced, aw_server>>

\* quit_app: app.exit(0).  The process ends; every task ends where it is, and
\* nothing is run on the way out (no exit handler is registered).
quit_app ==
    /\ Running
    /\ pc' = [p \in Procs |-> "exited"]
    /\ UNCHANGED <<now, state, event_state, app_state, store, activity, idle_threshold,
                   session, handed, send_result, produced, aw_server>>

\* ------------------------------------------------------------ the poll loop
\* interval_timer.tick().await, then should_continue = get_state().is_tracking
loop_check(l) ==
    /\ pc[l] = "tick"
    /\ Goto(l, IF state.is_tracking THEN "probe" ELSE "shutdown")
    /\ UNCHANGED <<now, state, event_state, app_state, store, activity,
                   idle_threshold, session, handed, send_result, produced,
                   aw_server>>

\* !should_continue: finalize_session()
loop_shutdown_finalize(l) ==
    /\ pc[l] = "shutdown"
    /\ event_state' = finalize_taken(event_state)
    /\ Bind(l, finalize_session(event_state, now))
    /\ Goto(l, IF IsSome(finalize_session(event_state, now))
               THEN "shutdown_send" ELSE "stopped")
    /\ UNCHANGED <<now, state, app_state, store, activity, idle_threshold,
                   send_result, aw_server>>

\* !should_continue: send_session_to_backend(..) is called
loop_shutdown_send(l) ==
    /\ pc[l] = "shutdown_send"
    /\ Hand(l)
    /\ Goto(l, "shutdown_await")
    /\ UNCHANGED <<now, state, event_state, app_state, store, activity,
                   idle_threshold, session, send_result, produced, aw_server>>

\* the shutdown branch without its `break`: the loop goes on to the next tick
loop_shutdown_await_continues(l, r) ==
    /\ pc[l] = "shutdown_await"
    /\ Returned(r)
    /\ Drop(l)
    /\ Goto(l, "tick")
    /\ UNCHANGED <<now, state, event_state, app_state, store, activity,
                   idle_threshold, handed, produced, aw_server>>

\* !should_continue: `let _ = ... .await`, then break
loop_shutdown_await(l, r) ==
    /\ pc[l] = "shutdown_await"
    /\ Returned(r)
    /\ Drop(l)
    /\ Goto(l, "stopped")
    /\ UNCHANGED <<now, state, event_state, app_state, store, activity,
                   idle_threshold, handed, produced, aw_server>>

\* the idle test with a strict comparison
user_is_idle_strict(a, threshold) == a.idle_seconds > threshold

\* the loop's idle test: activity.idle_seconds >= idle_threshold
user_is_idle(a, threshold) == a.idle_seconds >= threshold

\* a tick without a snapshot that still refreshes the heartbeat
loop_probe_none_beats(l, result) ==
    /\ pc[l] = "probe"
    /\ IF ~state.is_tracking \/ ~IsSome(result)
       THEN /\ Goto(l, "tick")
            /\ event_state' = update_heartbeat(event_state, now)
            /\ UNCHANGED activity
       ELSE /\ activity' = [activity EXCEPT ![l] = result]
            /\ Goto(l, IF user_is_idle(Unwrap(result), idle_threshold[l])
                       THEN "handle_idle" ELSE "has_changed")
            /\ UNCHANGED event_state
    /\ UNCHANGED <<now, state, app_state, store, idle_threshold, session,
                   handed, send_result, produced, aw_server>>

\* get_native_activity -> get_current_activity: None when tracking is off or
\* the probe fails; otherwise the snapshot, compared with the captured
\* idle_threshold.
loop_probe(l, result) ==
    /\ pc[l] = "probe"
    /\ IF ~state.is_tracking \/ ~IsSome(result)
       THEN Goto(l, "tick") /\ UNCHANGED activity
       ELSE /\ activity' = [activity EXCEPT ![l] = result]
            /\ Goto(l, IF user_is_idle(Unwrap(result), idle_threshold[l])
                       THEN "handle_idle" ELSE "has_changed")
    /\ UNCHANGED <<now, state, event_state, app_state, store, idle_threshold, session,
                   handed, send_result, produced, aw_server>>

\* handle_idle without its `if !event_state.is_idle` test
loop_handle_idle_unguarded(l) ==
    /\ pc[l] = "handle_idle"
    /\ event_state' = [event_state EXCEPT !.is_idle = TRUE]
    /\ Goto(l, "idle_finalize")
    /\ UNCHANGED <<now, state, app_state, store, activity, idle_threshold, session,
                   handed, send_result, produced, aw_server>>

\* handle_idle, first critical section
loop_handle_idle(l) ==
    /\ pc[l] = "handle_idle"
    /\ IF ~event_state.is_idle
       THEN /\ event_state' = [event_state EXCEPT !.is_idle = TRUE]
            /\ Goto(l, "idle_finalize")
       ELSE /\ UNCHANGED event_state
            /\ Goto(l, "update_ui")
    /\ UNCHANGED <<now, state, app_state, store, activity, idle_threshold, session,
                   handed, send_result, produced, aw_server>>

\* handle_idle whose finalize leaves the session in the state
loop_idle_finalize_keeps_session(l) ==
    /\ pc[l] = "idle_finalize"
    /\ Bind(l, finalize_session(event_state, now))
    /\ Goto(l, IF IsSome(finalize_session(event_state, now))
               THEN "idle_send" ELSE "update_ui")
    /\ UNCHANGED <<now, state, event_state, app_state, store, activity,
                   idle_threshold, send_result, aw_server>>

\* handle_idle: return self.finalize_session()
loop_idle_finalize(l) ==
    /\ pc[l] = "idle_finalize"
    /\ event_state' = finalize_taken(event_state)
    /\ Bind(l, finalize_session(event_state, now))
    /\ Goto(l, IF IsSome(finalize_session(event_state, now))
               THEN "idle_send" ELSE "update_ui")
    /\ UNCHANGED <<now, state, app_state, store, activity, idle_threshold,
                   send_result, aw_server>>

\* idle path: send_session_to_backend(..) is called
loop_idle_send(l) ==
    /\ pc[l] = "idle_send"
    /\ Hand(l)
    /\ Goto(l, "idle_await")
    /\ UNCHANGED <<now, state, event_state, app_state, store, activity,
                   idle_threshold, session, send_result, produced, aw_server>>

\* idle path: the delivery completes and its outcome is recorded
loop_idle_await(l, r) ==
    /\ pc[l] = "idle_await"
    /\ Returned(r)
    /\ event_state' = record_outcome(event_state, r)
    /\ Drop(l)
    /\ Goto(l, "update_ui")
    /\ UNCHANGED <<now, state, app_state, store, activity, idle_threshold, handed,
                   produced, aw_server>>

\* active path: has_activity_changed(&activity)
loop_has_changed(l) ==
    /\ pc[l] = "has_changed"
    /\ Goto(l, IF has_activity_changed(event_state, Unwrap(activity[l]))
               THEN "change_finalize" ELSE "heartbeat")
    /\ UNCHANGED <<now, state, event_state, app_state, store, activity,
                   idle_threshold, session, handed, send_result, produced,
                   aw_server>>

\* change path: finalize_session()
loop_change_finalize(l) ==
    /\ pc[l] = "change_finalize"
    /\ event_state' = finalize_taken(event_state)
    /\ Bind(l, finalize_session(event_state, now))
    /\ Goto(l, IF IsSome(finalize_session(event_state, now))
               THEN "change_send" ELSE "start_session")
    /\ UNCHANGED <<now, state, app_state, store, activity, idle_threshold,
                   send_result, aw_server>>

\* change path: send_session_to_backend(..) is called
loop_change_send(l) ==
    /\ pc[l] = "change_send"
    /\ Hand(l)
    /\ Goto(l, "change_await")
    /\ UNCHANGED <<now, state, event_state, app_state, store, activity,
                   idle_threshold, session, send_result, produced, aw_server>>

\* change path, with a failed delivery sent again
loop_change_await_retry(l, r) ==
    /\ pc[l] = "change_await"
    /\ Returned(r)
    /\ event_state' = record_outcome(event_state, r)
    /\ IF r = "Ok"
       THEN Drop(l) /\ Goto(l, "start_session")
       ELSE UNCHANGED session /\ Goto(l, "change_send")
    /\ UNCHANGED <<now, state, app_state, store, activity, idle_threshold, handed,
                   produced, aw_server>>

\* change path: the delivery completes and its outcome is recorded
loop_change_await(l, r) ==
    /\ pc[l] = "change_await"
    /\ Returned(r)
    /\ event_state' = record_outcome(event_state, r)
    /\ Drop(l)
    /\ Goto(l, "start_session")
    /\ UNCHANGED <<now, state, app_state, store, activity, idle_threshold, handed,
                   produced, aw_server>>

\* change path that gives the tick up after a failed delivery
loop_start_session_unless_error(l) ==
    /\ pc[l] = "start_session"
    /\ event_state' = IF IsSome(event_state.last_send_error)
                      THEN event_state
                      ELSE start_session(event_state, Unwrap(activity[l]), now)
    /\ Goto(l, "handle_active")
    /\ UNCHANGED <<now, state, app_state, store, activity, idle_threshold, session,
                   handed, send_result, produced, aw_server>>

\* change path: start_session(&activity)
loop_start_session(l) ==
    /\ pc[l] = "start_session"
    /\ event_state' = start_session(event_state, Unwrap(activity[l]), now)
    /\ Goto(l, "handle_active")
    /\ UNCHANGED <<now, state, app_state, store, activity, idle_threshold, session,
                   handed, send_result, produced, aw_server>>

\* same activity: update_heartbeat()
loop_update_heartbeat(l) ==
    /\ pc[l] = "heartbeat"
    /\ event_state' = update_heartbeat(event_state, now)
    /\ Goto(l, "handle_active")
    /\ UNCHANGED <<now, state, app_state, store, activity, idle_threshold, session,
                   handed, send_result, produced, aw_server>>

\* handle_active, first critical section
loop_handle_active(l) ==
    /\ pc[l] = "handle_active"
    /\ IF event_state.is_idle
       THEN /\ event_state' = [event_state EXCEPT !.is_idle = FALSE]
            /\ Goto(l, "active_start")
       ELSE /\ UNCHANGED event_state
            /\ Goto(l, "update_ui")
    /\ UNCHANGED <<now, state, app_state, store, activity, idle_threshold, session,
                   handed, send_result, produced, aw_server>>

\* handle_active: self.start_session(activity)
loop_active_start(l) ==
    /\ pc[l] = "active_start"
    /\ event_state' = start_session(event_state, Unwrap(activity[l]), now)
    /\ Goto(l, "update_ui")
    /\ UNCHANGED <<now, state, app_state, store, activity, idle_threshold, session,
                   handed, send_result, produced, aw_server>>

\* AppStateWrapper::update_from_native_activity
update_from_native_activity(as, app, window_title, idle_seconds, threshold) ==
    [as EXCEPT !.is_idle = (idle_seconds >= threshold)]

\* update_from_native_activity(.., idle_threshold)
loop_update_ui(l) ==
    /\ pc[l] = "update_ui"
    /\ app_state' = update_from_native_activity(app_state, Unwrap(activity[l]).app_name,
                        Unwrap(activity[l]).window_title,
                        Unwrap(activity[l]).idle_seconds, idle_threshold[l])
    /\ Goto(l, "realtime_send")
    /\ UNCHANGED <<now, state, event_state, store, activity, idle_threshold, session,
                   handed, send_result, produced, aw_server>>

\* the literal of send_current_activity_to_backend's idle test (seconds)
RealtimeIdleSeconds == 300

\* send_current_activity_to_backend: the JSON payload it posts for a snapshot
\* (the timestamp is the instant of the call)
realtime_payload(a, t) ==
    [app_name |-> a.app_name, window_title |-> a.window_title, url |-> None,
     is_idle |-> (a.idle_seconds >= RealtimeIdleSeconds),
     idle_seconds |-> a.idle_seconds, timestamp |-> to_rfc3339(t),
     source |-> "tauri"]

\* send_current_activity_to_backend(..) is called
loop_realtime_send(l) ==
    /\ pc[l] = "realtime_send"
    /\ Goto(l, "realtime_await")
    /\ UNCHANGED <<now, state, event_state, app_state, store, activity,
                   idle_threshold, session, handed, send_result, produced,
                   aw_server>>

\* the real-time request's result recorded like a session delivery's
loop_realtime_await_records(l) ==
    /\ pc[l] = "realtime_await"
    /\ \E r \in SendOutcomes : event_state' = record_outcome(event_state, r)
    /\ Goto(l, "update_activity")
    /\ UNCHANGED <<now, state, app_state, store, activity, idle_threshold, session,
                   handed, send_result, produced, aw_server>>

\* `let _ = ... .await`: the real-time request completes, its result is dropped
loop_realtime_await(l) ==
    /\ pc[l] = "realtime_await"
    /\ Goto(l, "update_activity")
    /\ UNCHANGED <<now, state, event_state, app_state, store, activity,
                   idle_threshold, session, handed, send_result, produced,
                   aw_server>>

\* ActivityTracker::update_activity
update_activity(st, a) ==
    [st EXCEPT !.is_idle = (a.idle_seconds >= st.idle_threshold_seconds)]

\* update_activity(activity), end of the loop body
loop_update_activity(l) ==
    /\ pc[l] = "update_activity"
    /\ state' = update_activity(state, Unwrap(activity[l]))
    /\ activity' = [activity EXCEPT ![l] = None]
    /\ Goto(l, "tick")
    /\ UNCHANGED <<now, event_state, app_state, store, idle_threshold, session,
                   handed, send_result, produced, aw_server>>

\* the clock advances by n units
AdvanceBy(n) ==
    /\ now + n <= MaxTime
    /\ now' = now + n
    /\ UNCHANGED <<state, event_state, app_state, store, pc, activity, idle_threshold,
                   session, handed, send_result, produced, aw_server>>

\* the clock advances by one unit
Advance == AdvanceBy(1)

\* what get_native_activity can return on a tick
ProbeResults == {None} \cup {Some(a) : a \in Snapshots}

\* the probe results of the runs in which poll loops overlap
ProbeResultsMulti ==
    {None} \cup {Some(a) : a \in {n \in Snapshots : /\ n.app_name = "Editor"
                                                     /\ n.idle_seconds \in {0, 300}
                                                     /\ n.idle_seconds = 300 =>
                                                            n.window_title = "main.go"}}

\* one step of a poll loop whose probe returns one of Probed
LoopStep(l, Probed) ==
    \/ loop_check(l)
    \/ loop_shutdown_finalize(l)
    \/ loop_shutdown_send(l)
    \/ \E r \in SendOutcomes : loop_shutdown_await(l, r)
    \/ \E result \in Probed : loop_probe(l, result)
    \/ loop_handle_idle(l)
    \/ loop_idle_finalize(l)
    \/ loop_idle_send(l)
    \/ \E r \in SendOutcomes : loop_idle_await(l, r)
    \/ loop_has_changed(l)
    \/ loop_change_finalize(l)
    \/ loop_change_send(l)
    \/ \E r \in SendOutcomes : loop_change_await(l, r)
    \/ loop_start_session(l)
    \/ loop_update_heartbeat(l)
    \/ loop_handle_active(l)
    \/ loop_update_ui(l)
    \/ loop_realtime_send(l)
    \/ loop_realtime_await(l)
    \/ loop_update_activity(l)

\* the commands that switch tracking on and off
Lifecycle ==
    \/ \E enabled \in BOOLEAN : set_native_tracking(enabled)
    \/ \E saved \in BOOLEAN : stop_activity_polling(saved)

\* the other commands on the tracker
Commands ==
    \/ \E seconds \in Thresholds : set_idle_threshold_command(seconds)
    \/ finalize_current_session
    \/ finalize_current_session_send
    \/ \E r \in SendOutcomes : finalize_current_session_await(r)

\* The program under any sequence of start_event_based_tracking,
\* stop_activity_polling and set_native_tracking calls: every start spawns one
\* more poll loop.  The runs are kept small: one configuration, three
\* snapshots, and a clock that makes one step of a second.
Next ==
    \/ \E saved \in BOOLEAN :
          start_event_based_tracking(PollInterval, DefaultIdleThreshold, saved)
    \/ Lifecycle
    \/ \E l \in Loops : LoopStep(l, ProbeResultsMulti) \/ loop_active_start(l)
    \/ (now = 0 /\ AdvanceBy(TicksPerSec))

Spec == Init /\ [][Next]_vars

\* The program when start_event_based_tracking is only called while no poll
\* loop is running (a single event-based poll loop at a time), under all
\* commands.  handle_active's start_session is then never reached
\* (SingleNeverActiveStart), so the step after it is no part of NextSingle.
NextSingle ==
    \/ \E seconds \in Thresholds, saved \in BOOLEAN :
          /\ \A l \in Loops : ~LoopLive(l)
          /\ start_event_based_tracking(PollInterval, seconds, saved)
    \/ Lifecycle
    \/ Commands
    \/ \E l \in Loops : LoopStep(l, ProbeResults)
    \/ Advance

SpecSingle == Init /\ [][NextSingle]_vars

\* in SpecSingle no loop reaches the start_session call of handle_active
SingleNeverActiveStart == \A l \in Loops : pc[l] # "active_start"

\* the clock advances by one second
AdvanceSecond ==
    /\ Running
    /\ now + TicksPerSec <= MaxSeconds * TicksPerSec
    /\ now' = now + TicksPerSec
    /\ UNCHANGED <<state, event_state, app_state, store, pc, activity, idle_threshold,
                   session, handed, send_result, produced, aw_server>>

\* the probe results of the runs up to the end of the process
ProbeResultsProcess ==
    {None} \cup {Some(a) : a \in {n \in Snapshots : /\ n.app_name = "Editor"
                                                     /\ n.idle_seconds \in {0, 300}}}

\* The life of the process: a single event-based poll loop at a time with the
\* default idle threshold, the commands that switch tracking,
\* finalize_current_session, and quit_app, after which nothing runs.  The
\* caller may pass a poll interval of zero.  The clock steps by whole seconds.
NextProcess ==
    \/ \E poll_interval_ms \in PollIntervals, saved \in BOOLEAN :
          /\ \A l \in Loops : ~LoopLive(l)
          /\ start_event_based_tracking(poll_interval_ms, DefaultIdleThreshold, saved)
    \/ Lifecycle
    \/ finalize_current_session
    \/ finalize_current_session_send
    \/ \E r \in SendOutcomes : finalize_current_session_await(r)
    \/ \E l \in Loops : LoopStep(l, ProbeResultsProcess)
    \/ AdvanceSecond
    \/ quit_app

SpecProcess == Init /\ [][NextProcess]_vars

\* ------------------------------------------------------------ claims
\* a step of task p: every step of a task moves its position
StepOf(p) == pc'[p] # pc[p]
\* the live session and the snapshot of loop l's tick
Live == Unwrap(event_state.current_session)
Snap(l) == Unwrap(activity[l])
\* the positions of a tick after its idle or active branch
TickTail == {"update_ui", "realtime_send", "realtime_await", "update_activity"}
\* whole seconds d of an elapsed time: d seconds have passed, d + 1 have not
WholeSeconds(d, elapsed) ==
    d * TicksPerSec <= elapsed /\ elapsed < (d + 1) * TicksPerSec

\* C1: in the runs of one event-based poll loop, start_session is only ever
\* executed while current_session is None: the live session was taken out by
\* finalize_session before, so no session is overwritten.
C1_StartSessionOnlyWhenNone ==
    \A l \in Loops :
        pc[l] \in {"start_session", "active_start"} =>
            ~IsSome(event_state.current_session)

\* C1 witness: a session was completed and delivered, and the change path has
\* started the next one at this instant.
C1_Witness ==
    \E l \in Loops :
        /\ pc[l] = "handle_active"
        /\ event_state.sessions_sent >= 1
        /\ IsSome(event_state.current_session)
        /\ Live.start_time = now

\* C2: no two tick bodies run overlapped against the same ActivityTracker,
\* whatever the sequence of start_event_based_tracking, stop_activity_polling
\* and set_native_tracking calls.
C2_NoOverlappingTicks == Cardinality({l \in Loops : InTick(l)}) <= 1

\* C3: a tick whose snapshot has idle_seconds >= the loop's idle threshold
\* takes the idle path; if the tracker is not idle yet it sets is_idle, then
\* finalizes: current_session becomes None and a live session of at least one
\* second yields its CompletedSession, which is handed to delivery.  From the
\* end of the idle path to the end of the tick is_idle is true and no session
\* is live.
C3_Step(l) ==
    /\ (pc[l] = "probe" /\ IsSome(activity'[l])
           /\ Snap(l)'.idle_seconds >= idle_threshold[l])
         => pc'[l] = "handle_idle"
    /\ (pc[l] = "handle_idle" /\ ~event_state.is_idle)
         => event_state'.is_idle /\ pc'[l] = "idle_finalize"
    /\ pc[l] = "idle_finalize"
         => /\ event_state'.current_session = None
            /\ event_state'.is_idle
            /\ (IsSome(event_state.current_session)
                   /\ now - Live.start_time >= MinDuration * TicksPerSec)
                 => /\ IsSome(session'[l])
                    /\ Unwrap(session'[l]).app_name = Live.app_name
                    /\ Unwrap(session'[l]).window_title = Live.window_title
                    /\ WholeSeconds(Unwrap(session'[l]).duration, now - Live.start_time)
                    /\ pc'[l] = "idle_send"
    /\ pc[l] = "idle_send" => handed'[l] = 1 /\ pc'[l] = "idle_await"
    /\ (pc'[l] \in TickTail /\ Snap(l)'.idle_seconds >= idle_threshold[l])
         => event_state'.is_idle /\ event_state'.current_session = None

C3_IdleTransition == [][\A l \in Loops : StepOf(l) => C3_Step(l)]_vars

\* C3 witness: the snapshot's idle time equals the threshold, the tracker went
\* idle and the finalized session is about to be delivered.
C3_Witness ==
    \E l \in Loops :
        /\ pc[l] = "idle_send"
        /\ Snap(l).idle_seconds = idle_threshold[l]
        /\ event_state.is_idle
        /\ event_state.current_session = None
        /\ IsSome(session[l])

\* C4: a tick with idle_seconds >= threshold that follows an idle tick finds
\* the tracker already idle, and then produces no CompletedSession, attempts no delivery and changes no field
\* of EventTrackerState, up to the end of the tick.
C4_Step(l) ==
    /\ (pc[l] = "handle_idle" /\ app_state.is_idle) => event_state.is_idle
    /\ (pc[l] = "handle_idle" /\ event_state.is_idle)
         => /\ pc'[l] = "update_ui"
            /\ UNCHANGED <<event_state, session, handed>>
    /\ (pc[l] \in TickTail /\ Snap(l).idle_seconds >= idle_threshold[l])
         => UNCHANGED <<event_state, session, handed>>

C4_IdleIdempotent == [][\A l \in Loops : StepOf(l) => C4_Step(l)]_vars

\* C4 witness: a tick on the idle path has found the tracker already idle and
\* has gone on to the end of the tick.
C4_Witness ==
    \E l \in Loops :
        /\ pc[l] = "update_ui"
        /\ Snap(l).idle_seconds >= idle_threshold[l]
        /\ event_state.is_idle
        /\ app_state.is_idle

\* the session start_session makes of snapshot a at instant t
SessionOf(a, t) ==
    [app_name |-> a.app_name, window_title |-> a.window_title,
     bundle_id |-> a.bundle_id, is_browser |-> a.is_browser,
     start_time |-> t, last_heartbeat |-> t]

\* C5: an active tick whose snapshot differs from the live session in
\* window_title or app_name finalizes the session and starts a new one from
\* the snapshot in the same tick; the CompletedSession carries the old
\* session's app_name and window_title and the whole seconds from the old
\* session's start to this finalize.
C5_Step(l) ==
    /\ (pc[l] = "has_changed" /\ IsSome(event_state.current_session)
          /\ (Live.app_name # Snap(l).app_name \/ Live.window_title # Snap(l).window_title))
         => pc'[l] = "change_finalize"
    /\ pc[l] = "change_finalize"
         => /\ event_state'.current_session = None
            /\ pc'[l] \in {"change_send", "start_session"}
            /\ (IsSome(event_state.current_session)
                   /\ now - Live.start_time >= MinDuration * TicksPerSec)
                 => /\ IsSome(session'[l])
                    /\ Unwrap(session'[l]).app_name = Live.app_name
                    /\ Unwrap(session'[l]).window_title = Live.window_title
                    /\ WholeSeconds(Unwrap(session'[l]).duration, now - Live.start_time)
                    /\ pc'[l] = "change_send"
    /\ pc[l] = "change_send" => pc'[l] = "change_await"
    /\ pc[l] = "change_await" => pc'[l] = "start_session"
    /\ pc[l] = "start_session"
         => /\ event_state'.current_session = Some(SessionOf(Snap(l), now))
            /\ pc'[l] = "handle_active"

C5_ChangeFinalizesAndStarts == [][\A l \in Loops : StepOf(l) => C5_Step(l)]_vars

\* C5 witness: the title changed within one application; the old session's
\* record is bound and the new session is about to start.
C5_Witness ==
    \E l \in Loops :
        /\ pc[l] = "change_send"
        /\ IsSome(session[l])
        /\ Unwrap(session[l]).app_name = Snap(l).app_name
        /\ Unwrap(session[l]).window_title # Snap(l).window_title
        /\ Unwrap(session[l]).duration = 1

\* C6: an active tick whose app_name and window_title equal the live
\* session's takes the heartbeat path: no CompletedSession is produced and of
\* EventTrackerState only last_heartbeat changes, to the time of the step.
C6_Step(l) ==
    /\ (pc[l] = "has_changed" /\ IsSome(event_state.current_session)
          /\ Live.app_name = Snap(l).app_name /\ Live.window_title = Snap(l).window_title)
         => pc'[l] = "heartbeat" /\ UNCHANGED <<event_state, session, handed>>
    /\ pc[l] = "heartbeat"
         => /\ pc'[l] = "handle_active"
            /\ UNCHANGED <<session, handed>>
            /\ event_state' =
                   IF IsSome(event_state.current_session)
                   THEN [event_state EXCEPT !.current_session =
                            Some([Live EXCEPT !.last_heartbeat = now])]
                   ELSE event_state
    /\ (pc[l] = "handle_active" /\ ~has_activity_changed(event_state, Snap(l)))
         => pc'[l] = "update_ui" /\ UNCHANGED <<event_state, session, handed>>

C6_HeartbeatOnly == [][\A l \in Loops : StepOf(l) => C6_Step(l)]_vars

\* C6 witness: the heartbeat of a live session was moved past its start.
C6_Witness ==
    \E l \in Loops :
        /\ pc[l] = "handle_active"
        /\ IsSome(event_state.current_session)
        /\ Live.last_heartbeat > Live.start_time
        /\ Live.last_heartbeat = now
        /\ ~has_activity_changed(event_state, Snap(l))

\* C7: an active tick processed while no session is live produces no
\* CompletedSession and starts a new session from its snapshot, with
\* start_time = last_heartbeat = the time of the start, and is_idle false.
C7_Step(l) ==
    /\ (pc[l] = "probe" /\ IsSome(activity'[l])
           /\ Snap(l)'.idle_seconds < idle_threshold[l])
         => pc'[l] = "has_changed"
    /\ (pc[l] = "has_changed" /\ event_state.current_session = None)
         => pc'[l] = "change_finalize"
    /\ (pc[l] = "change_finalize" /\ event_state.current_session = None)
         => /\ session'[l] = None
            /\ UNCHANGED event_state
            /\ pc'[l] = "start_session"
    /\ pc[l] = "start_session"
         => /\ event_state.current_session = None
            /\ event_state'.current_session = Some(SessionOf(Snap(l), now))
            /\ ~event_state'.is_idle

C7_ActiveWithoutSessionStarts == [][\A l \in Loops : StepOf(l) => C7_Step(l)]_vars

\* C7 witness: the tick before was idle (AppState still says so), and this
\* active tick has started a fresh session at this instant.
C7_Witness ==
    \E l \in Loops :
        /\ pc[l] = "handle_active"
        /\ app_state.is_idle
        /\ ~event_state.is_idle
        /\ event_state.sessions_sent >= 1
        /\ event_state.current_session = Some(SessionOf(Snap(l), now))

\* positions at which a task calls finalize_session, calls
\* send_session_to_backend, and awaits the delivery
FinalizePcs == {"shutdown", "idle_finalize", "change_finalize"}
SendPcs == {"shutdown_send", "idle_send", "change_send", "cmd_send"}
AwaitPcs == {"shutdown_await", "idle_await", "change_await", "cmd_await"}

\* C8: a live session of less than one whole second is cleared by
\* finalize_session and yields no CompletedSession; every CompletedSession has
\* duration >= 1, and only such a record is passed to send_session_to_backend
\* or counted in sessions_sent.
C8_Step ==
    /\ \A l \in Loops :
         (StepOf(l) /\ pc[l] \in FinalizePcs /\ IsSome(event_state.current_session)
            /\ now - Live.start_time < MinDuration * TicksPerSec)
           => /\ event_state'.current_session = None
              /\ session'[l] = None
              /\ pc'[l] \notin SendPcs
    /\ (IsSome(event_state.current_session) /\ event_state'.current_session = None
          /\ now - Live.start_time < MinDuration * TicksPerSec)
         => session' = session
    /\ \A p \in Procs :
         /\ IsSome(session'[p]) => Unwrap(session'[p]).duration >= 1
         /\ handed'[p] > handed[p] =>
                IsSome(session[p]) /\ Unwrap(session[p]).duration >= 1
    /\ event_state'.sessions_sent # event_state.sessions_sent
         => \E p \in Procs : /\ StepOf(p) /\ pc[p] \in AwaitPcs /\ handed[p] = 1
                             /\ IsSome(session[p]) /\ Unwrap(session[p]).duration >= 1

C8_ShortSessionsDiscarded == [][C8_Step]_vars

\* C8 witness: finalize_session is called on the change path for a session
\* that has lived for a part of a second.
C8_Witness ==
    \E l \in Loops :
        /\ pc[l] = "change_finalize"
        /\ IsSome(event_state.current_session)
        /\ now - Live.start_time > 0
        /\ now - Live.start_time < MinDuration * TicksPerSec

\* C9: every CompletedSession carries the start instant of its session and the
\* instant of the finalize as start_time and end_time, and its duration is the
\* whole seconds between the two, never negative, whatever last_heartbeat is:
\* a session ended a second or more after its start always yields its record.
C9_Step ==
    /\ (IsSome(event_state.current_session) /\ event_state'.current_session = None
          /\ now - Live.start_time >= MinDuration * TicksPerSec)
         => \E p \in Procs : session'[p] # session[p] /\ IsSome(session'[p])
    /\ \A p \in Procs :
        (session'[p] # session[p] /\ IsSome(session'[p]))
          => /\ IsSome(event_state.current_session)
             /\ parse_rfc3339(Unwrap(session'[p]).start_time) = Live.start_time
             /\ parse_rfc3339(Unwrap(session'[p]).end_time) = now
             /\ Unwrap(session'[p]).duration >= 0
             /\ WholeSeconds(Unwrap(session'[p]).duration,
                             parse_rfc3339(Unwrap(session'[p]).end_time)
                               - parse_rfc3339(Unwrap(session'[p]).start_time))

C9_DurationIsEndMinusStart == [][C9_Step]_vars

\* C9 witness: a CompletedSession whose end is not a whole number of seconds
\* after its start (the duration was truncated).
C9_Witness ==
    \E p \in Procs :
        /\ IsSome(session[p])
        /\ parse_rfc3339(Unwrap(session[p]).end_time)
             - parse_rfc3339(Unwrap(session[p]).start_time)
           > Unwrap(session[p]).duration * TicksPerSec

\* C10: a CompletedSession bound at a finalize call site is passed to
\* send_session_to_backend exactly once: it is bound only on the way to the
\* call, the call is made once, and the record is dropped, after a success or
\* a failure, only when it has been passed once.
C10_State ==
    \A p \in Procs :
        /\ handed[p] <= 1
        /\ IsSome(session[p]) => pc[p] \in SendPcs \cup AwaitPcs
        /\ pc[p] \in SendPcs => IsSome(session[p]) /\ handed[p] = 0
        /\ pc[p] \in AwaitPcs => IsSome(session[p]) /\ handed[p] = 1

C10_Step ==
    \A p \in Procs :
        /\ (IsSome(session[p]) /\ session'[p] # session[p])
             => handed[p] = 1 /\ session'[p] = None
        /\ pc[p] \in SendPcs /\ StepOf(p) => pc'[p] \in AwaitPcs
        /\ pc[p] \in AwaitPcs /\ StepOf(p) => pc'[p] \notin SendPcs \cup AwaitPcs

C10_DeliveredExactlyOnce == [][C10_State' /\ C10_Step]_vars

\* C10 witness: a delivery of the poll loop has failed; the record was passed
\* once and is dropped, and the tick has gone on.
C10_Witness ==
    \E l \in Loops :
        /\ pc[l] = "start_session"
        /\ handed[l] = 1
        /\ session[l] = None
        /\ IsSome(event_state.last_send_error)

\* C11: every completed attempt to deliver a CompletedSession overwrites
\* last_send_error with its outcome, at every call site (idle path, change
\* path, shutdown finalize, finalize_current_session): None after Ok, the
\* error message after a failure.
C11_Step ==
    \A p \in Procs :
        (StepOf(p) /\ pc[p] \in AwaitPcs)
          => event_state'.last_send_error =
                 IF send_result' = Some("Ok") THEN None ELSE send_result'

C11_OutcomeRecordedEverywhere == [][C11_Step]_vars

\* C11, the two call sites of the loop body that match on the result: there
\* the outcome is recorded.
C11_LoopBodyStep ==
    \A l \in Loops :
        (StepOf(l) /\ pc[l] \in {"idle_await", "change_await"})
          => event_state'.last_send_error =
                 IF send_result' = Some("Ok") THEN None ELSE send_result'

C11_LoopBodyRecords == [][C11_LoopBodyStep]_vars

\* C12: sessions_sent never decreases, changes by one only, and only in the
\* step in which a delivery returns Ok; a failed delivery leaves it unchanged;
\* it never exceeds the number of CompletedSessions produced so far.
C12_Step ==
    /\ event_state'.sessions_sent \in
           {event_state.sessions_sent, event_state.sessions_sent + 1}
    /\ event_state'.sessions_sent # event_state.sessions_sent
         => \E p \in Procs : /\ StepOf(p) /\ pc[p] \in AwaitPcs
                             /\ IsSome(session[p]) /\ handed[p] = 1
                             /\ send_result' = Some("Ok")
    /\ (\E p \in Procs : StepOf(p) /\ pc[p] \in AwaitPcs /\ send_result' # Some("Ok"))
         => event_state'.sessions_sent = event_state.sessions_sent
    /\ event_state'.sessions_sent <= produced'

C12_SessionsSentCountsSuccesses == [][C12_Step]_vars

\* C12 witness: one CompletedSession was produced, its delivery returned Ok
\* and it was counted.
C12_Witness ==
    /\ produced = 1
    /\ send_result = Some("Ok")
    /\ event_state.sessions_sent = 1

\* the positions of a loop from its shutdown finalize to its end
ShutdownTail == {"shutdown_send", "shutdown_await", "stopped"}

\* C13: a tick that reads is_tracking = false calls finalize_session once,
\* passes the record (if any) to delivery once, and the loop stops: from the
\* finalize on it is at no position of the tick body, and current_session is
\* None (no other loop being alive to start a session).
C13_State ==
    \A l \in Loops :
        (pc[l] \in ShutdownTail /\ \A k \in Loops \ {l} : ~LoopLive(k))
          => event_state.current_session = None

C13_Step(l) ==
    /\ (pc[l] = "tick" /\ ~state.is_tracking) => pc'[l] = "shutdown"
    /\ pc[l] = "shutdown"
         => /\ event_state'.current_session = None
            /\ session'[l] = finalize_session(event_state, now)
            /\ pc'[l] = IF IsSome(session'[l]) THEN "shutdown_send" ELSE "stopped"
    /\ pc[l] = "shutdown_send"
         => handed'[l] = 1 /\ pc'[l] = "shutdown_await" /\ UNCHANGED event_state
    /\ pc[l] = "shutdown_await"
         => session'[l] = None /\ pc'[l] = "stopped"
    /\ pc[l] = "stopped"
         => pc'[l] = "tick" /\ event_state'.is_tracking /\ UNCHANGED <<session, handed>>

C13_ShutdownFinalizeIsLast ==
    [][C13_State' /\ \A l \in Loops : StepOf(l) => C13_Step(l)]_vars

\* C13 witness: the loop found tracking disabled, finalized a live session,
\* the delivery has returned and the loop has stopped.
C13_Witness ==
    \E l \in Loops :
        /\ pc[l] = "stopped"
        /\ ~state.is_tracking
        /\ produced = 1
        /\ IsSome(send_result)
        /\ event_state.sessions_sent = 0
        /\ event_state.current_session = None

\* C14: a session that is live when the process is asked to stop is finalized
\* by a finalize_session call before the process stops: when the process has
\* exited, no session is left in the tracker.
C14_NoLiveSessionAtExit ==
    ~Running => ~IsSome(event_state.current_session)

\* the instant at which the CompletedSession bound by task p was finalized
FinalizedAt(p) == parse_rfc3339(Unwrap(session[p]).end_time)

\* C18: CompletedSessions are delivered in the order they were finalized: the
\* delivery of a record finalized earlier (by the poll loop or by
\* finalize_current_session) completes before the delivery of a record
\* finalized later begins, so while the earlier one is in flight the later one
\* has not been passed to send_session_to_backend.
C18_DeliveredInFinalizeOrder ==
    \A p, q \in Procs :
        (/\ IsSome(session[p]) /\ handed[p] = 1
         /\ IsSome(session[q]) /\ FinalizedAt(p) < FinalizedAt(q))
          => handed[q] = 0

\* C15: a threshold set with set_idle_threshold while the loop runs takes
\* effect on the next tick: the tick's idle-versus-active decision compares
\* the snapshot's idle_seconds with the threshold the tracker holds then.
C15_Step(l) ==
    (pc[l] = "probe" /\ IsSome(activity'[l]))
      => (pc'[l] = "handle_idle"
            <=> Snap(l)'.idle_seconds >= state.idle_threshold_seconds)

C15_ThresholdAppliesNextTick == [][\A l \in Loops : StepOf(l) => C15_Step(l)]_vars

\* C15, the tracking flag: a tick that starts with is_tracking = false takes
\* the shutdown branch, and one that starts with is_tracking = true does not.
C15_FlagStep(l) ==
    pc[l] = "tick" => (pc'[l] = "shutdown" <=> ~state.is_tracking)

C15_FlagAppliesNextTick == [][\A l \in Loops : StepOf(l) => C15_FlagStep(l)]_vars

\* C16: set_tracking and set_idle_threshold only write the configuration:
\* a step that changes is_tracking or idle_threshold_seconds (in either copy)
\* changes neither current_session, is_idle, sessions_sent nor
\* last_send_error, and finalizes nothing: no CompletedSession is produced,
\* bound or sent.
C16_Step ==
    (\/ state'.is_tracking # state.is_tracking
     \/ event_state'.is_tracking # event_state.is_tracking
     \/ state'.idle_threshold_seconds # state.idle_threshold_seconds
     \/ event_state'.idle_threshold_seconds # event_state.idle_threshold_seconds)
      => /\ event_state'.current_session = event_state.current_session
         /\ event_state'.is_idle = event_state.is_idle
         /\ event_state'.sessions_sent = event_state.sessions_sent
         /\ event_state'.last_send_error = event_state.last_send_error
         /\ state'.is_idle = state.is_idle
         /\ UNCHANGED <<session, handed, produced, send_result>>
         /\ state'.is_tracking = event_state'.is_tracking
         /\ state'.idle_threshold_seconds = event_state'.idle_threshold_seconds

C16_ConfigurationWritesOnly == [][C16_Step]_vars

\* C16 witness: while a loop runs and a session is live, tracking was disabled
\* and the threshold changed; the session is still live.
C16_Witness ==
    \E l \in Loops :
        /\ LoopLive(l)
        /\ ~state.is_tracking
        /\ state.idle_threshold_seconds # idle_threshold[l]
        /\ IsSome(event_state.current_session)
        /\ Live.start_time < now

\* C17: a tick whose probe returns no snapshot is skipped: the loop goes back
\* to wait for the next tick and nothing else changes (EventTrackerState with
\* the session's last_heartbeat, ActivityState, AppState, no record bound or
\* sent, no real-time send).
C17_Step(l) ==
    (pc[l] = "probe" /\ activity'[l] = None)
      => /\ pc'[l] = "tick"
         /\ UNCHANGED <<state, event_state, app_state, store, session, handed,
                        send_result, produced>>

C17_NoSnapshotSkipsTick == [][\A l \in Loops : StepOf(l) => C17_Step(l)]_vars

\* C17 witness: the loop is about to probe while a session is live whose last
\* heartbeat lies in the past; the probe can return nothing here, and a tick
\* that is not skipped would move the heartbeat or end the session.
C17_Witness ==
    \E l \in Loops :
        /\ pc[l] = "probe"
        /\ state.is_tracking
        /\ IsSome(event_state.current_session)
        /\ Live.last_heartbeat < now

\* C19: a concurrent reader of the tracker state never sees the inside of a
\* tick transition: not is_idle = true together with a live session (idle
\* transition), and not an active tracker without a session while the change
\* path is between its finalize and its start_session.
C19_TransitionsAtomic ==
    /\ ~(event_state.is_idle /\ IsSome(event_state.current_session))
    /\ \A l \in Loops :
         pc[l] \in {"change_send", "change_await"}
           => ~(~event_state.is_idle /\ event_state.current_session = None)

\* C19, the change path alone.
C19_ChangeAtomic ==
    \A l \in Loops :
        pc[l] \in {"change_send", "change_await"}
          => ~(~event_state.is_idle /\ event_state.current_session = None)

\* the positions at which a task waits for the activity probe or for a
\* session delivery, for as long as that takes
HungPcs == {"probe"} \cup AwaitPcs

C21_Step(l) ==
    /\ pc[l] = "update_ui" => pc'[l] = "realtime_send"
    /\ pc[l] \in {"realtime_send", "realtime_await"}
         => UNCHANGED <<event_state, state, session, handed, send_result, produced>>
    /\ pc[l] = "realtime_send" => pc'[l] = "realtime_await"
    /\ pc[l] = "realtime_await" => pc'[l] = "update_activity"
    /\ pc'[l] = "realtime_send" => pc[l] = "update_ui"
    /\ pc'[l] = "update_activity" => pc[l] = "realtime_await"
    /\ pc'[l] = "update_ui"
         => pc[l] \in {"handle_idle", "idle_finalize", "idle_await", "handle_active",
                       "active_start"}
    /\ IsSome(activity[l])
         => IF pc'[l] = "tick"
            THEN pc[l] = "update_activity"
            ELSE activity'[l] = activity[l]

C22_RealtimeSendDoesNotBlock ==
    \A l \in Loops :
        pc[l] = "realtime_await"
          => \/ ENABLED loop_check(l)
             \/ ENABLED loop_update_activity(l)
             \/ ENABLED loop_shutdown_finalize(l)

\* C23: a failed delivery on the change path is recorded in last_send_error
\* and nothing more: the record is dropped, sessions_sent is unchanged, the
\* new session is started from the snapshot in the same tick, and the tick
\* goes on as after a success.
C23_Step(l) ==
    /\ (pc[l] = "change_await" /\ send_result' # Some("Ok"))
         => /\ event_state'.last_send_error = send_result'
            /\ IsSome(event_state'.last_send_error)
            /\ event_state'.sessions_sent = event_state.sessions_sent
            /\ event_state'.current_session = None
            /\ session'[l] = None
            /\ pc'[l] = "start_session"
    /\ pc[l] = "start_session"
         => /\ event_state'.current_session = Some(SessionOf(Snap(l), now))
            /\ event_state'.last_send_error = event_state.last_send_error
            /\ pc'[l] = "handle_active"
    /\ (pc[l] = "handle_active" /\ ~event_state.is_idle) => pc'[l] = "update_ui"

C23_FailedDeliveryNotFatal == [][\A l \in Loops : StepOf(l) => C23_Step(l)]_vars

\* C23 witness: the only delivery so far has failed, the session started after
\* it is live, and a later tick is on its heartbeat path.
C23_Witness ==
    \E l \in Loops :
        /\ pc[l] = "heartbeat"
        /\ produced = 1
        /\ event_state.sessions_sent = 0
        /\ send_result = Some("Failed to send session")
        /\ IsSome(event_state.last_send_error)
        /\ IsSome(event_state.current_session)
        /\ Live.start_time > 0

\* C24: an invalid configuration value is rejected where it is set and the
\* configuration in effect is retained: no PollingConfig with a poll interval
\* of zero is ever stored, and no loop task is spawned with one.
C24_InvalidConfigRejected ==
    /\ IsSome(store.config) => Unwrap(store.config).poll_interval_ms > 0
    /\ \A l \in Loops : pc[l] # "panicked"

\* ------------------------------------------------------------ pure functions
\* Applications, window titles and bundle identifiers on which
\* has_activity_changed and is_browser_app are exercised: the values of the
\* unit test, names that contain a listed name without being equal to it,
\* a name that differs from a listed one in case only, and the empty title.
UnitAppNames ==
    {"Google Chrome", "Safari", "VS Code", "Unknown", "Arcade", "chrome"}
UnitWindowTitles == {"", "main.go"}
UnitBundleIds ==
    {None, Some("com.google.Chrome"), Some("com.google.Chrome.canary"),
     Some("com.microsoft.VSCode")}
UnitIdleValues == {0, 2}

\* get_native_activity on those values
UnitActivities ==
    { [app_name |-> a, window_title |-> w, bundle_id |-> b,
       is_browser |-> is_browser_app(a, b), idle_seconds |-> i] :
         a \in UnitAppNames, w \in UnitWindowTitles, b \in UnitBundleIds,
         i \in UnitIdleValues }

ProbeResultsUnit == {Some(a) : a \in UnitActivities}

\* A running loop about to probe, with no session or with the session an
\* earlier tick started at instant 0 from any of the activities.
InitUnit ==
    /\ now \in {0, TicksPerSec}
    /\ state = ActivityState_default
    /\ event_state \in
         {EventTrackerState_new}
           \cup {start_session(EventTrackerState_new, a, 0) :
                   a \in {n \in UnitActivities : n.idle_seconds = 0}}
    /\ app_state = AppState_default
    /\ store = [config |-> Some([poll_interval_ms |-> PollInterval])]
    /\ pc = [p \in Procs |-> IF p = Cmd THEN "ready"
                             ELSE IF p = 1 THEN "probe" ELSE "unspawned"]
    /\ activity = [l \in Loops |-> None]
    /\ idle_threshold = [l \in Loops |-> IF l = 1 THEN DefaultIdleThreshold ELSE 0]
    /\ session = [p \in Procs |-> None]
    /\ handed = [p \in Procs |-> 0]
    /\ send_result = None
    /\ produced = 0
    /\ aw_server_new

\* the probe and the comparison of one tick
NextUnit ==
    \/ \E result \in ProbeResultsUnit : loop_probe(1, result)
    \/ loop_has_changed(1)

SpecUnit == InitUnit /\ [][NextUnit]_vars

\* C25: has_activity_changed answers true exactly when no session is live or
\* the snapshot's app_name or window_title differs from the live session's.
\* A snapshot that differs from the session only in bundle_id, is_browser,
\* idle_seconds or time is not a change, and an empty window_title is compared
\* like any other string.
C25_Step(l) ==
    pc[l] = "has_changed" =>
      LET changed == pc'[l] = "change_finalize"
          same_app == Live.app_name = Snap(l).app_name
          same_title == Live.window_title = Snap(l).window_title
      IN /\ pc'[l] \in {"change_finalize", "heartbeat"}
         /\ event_state' = event_state
         /\ ~IsSome(event_state.current_session) => changed
         /\ IsSome(event_state.current_session) =>
              /\ ~same_app => changed
              /\ ~same_title => changed
              /\ same_app /\ same_title => ~changed
              /\ (same_app /\ Live.window_title = "" /\ Snap(l).window_title = "")
                   => ~changed
              /\ (Live.window_title = "") # (Snap(l).window_title = "") => changed

C25_ChangedIffAppOrTitleDiffers ==
    [][\A l \in Loops : StepOf(l) => C25_Step(l)]_vars

\* C25 witness: the comparison answered false for a snapshot with an empty
\* title that differs from the live session in bundle_id, is_browser,
\* idle_seconds and time.
C25_Witness ==
    /\ pc[1] = "heartbeat"
    /\ IsSome(event_state.current_session)
    /\ Live.window_title = ""
    /\ Live.bundle_id # Snap(1).bundle_id
    /\ Live.is_browser # Snap(1).is_browser
    /\ Snap(1).idle_seconds > 0
    /\ now > Live.start_time

\* names and bundle identifiers of the exercised values that mark a browser:
\* the name contains "Google Chrome", "Chrome", "Safari" or "Arc"; the bundle
\* identifier contains "com.google.Chrome".
UnitBrowserNames == {"Google Chrome", "Safari", "Arcade"}
UnitBrowserBundles == {Some("com.google.Chrome"), Some("com.google.Chrome.canary")}

\* C29: is_browser_app is true exactly when the application name contains a
\* listed browser name, or a bundle identifier is present and contains a
\* listed browser bundle identifier: "VS Code" without bundle identifier is not
\* a browser, an unknown name with a browser's bundle identifier is.
C29_IsBrowserByNameOrBundle ==
    \A l \in Loops : IsSome(activity[l]) =>
      /\ Snap(l).is_browser
           <=> \/ Snap(l).app_name \in UnitBrowserNames
               \/ Snap(l).bundle_id \in UnitBrowserBundles
      /\ (Snap(l).app_name = "VS Code" /\ Snap(l).bundle_id = None)
           => ~Snap(l).is_browser
      /\ (Snap(l).app_name = "Unknown" /\ Snap(l).bundle_id = Some("com.google.Chrome"))
           => Snap(l).is_browser

\* C29 witness: a snapshot of an unknown application is a browser by its
\* bundle identifier alone.
C29_Witness ==
    /\ IsSome(activity[1])
    /\ Snap(1).app_name = "Unknown"
    /\ Snap(1).bundle_id = Some("com.google.Chrome")
    /\ Snap(1).is_browser

\* C26: finalize_session always leaves current_session = None and changes no
\* other field of EventTrackerState; called with no live session it returns
\* None, so two calls in a row yield at most one CompletedSession.
C26_Step ==
    /\ \A p \in Procs :
         (\/ StepOf(p) /\ pc[p] \in FinalizePcs
          \/ p = Cmd /\ pc[p] = "ready" /\ pc'[p] = "cmd_send")
           => /\ event_state' = [event_state EXCEPT !.current_session = None]
              /\ ~IsSome(event_state.current_session)
                   => session'[p] = None /\ produced' = produced
              /\ produced' <= produced + 1
    /\ (IsSome(event_state.current_session) /\ ~IsSome(event_state'.current_session))
         => /\ event_state' = [event_state EXCEPT !.current_session = None]
            /\ produced' <= produced + 1
    /\ ~IsSome(event_state.current_session) => produced' = produced

C26_FinalizeClearsOnlySession == [][C26_Step]_vars

\* C26 witness: finalize_current_session took the live session and returned
\* its record; the loop's shutdown then called finalize_session again and got
\* None.
C26_Witness ==
    \E l \in Loops :
        /\ pc[l] = "stopped"
        /\ session[l] = None
        /\ pc[Cmd] = "cmd_send"
        /\ IsSome(session[Cmd])
        /\ produced = 1
        /\ event_state.current_session = None
        /\ event_state.is_idle = FALSE

\* C27: in every reachable state with a live session, last_heartbeat >=
\* start_time (the clock does not go backwards): start_session sets both to
\* the same instant and update_heartbeat only moves last_heartbeat to the
\* current time.
C27_HeartbeatNotBeforeStart ==
    IsSome(event_state.current_session) =>
        /\ Live.last_heartbeat >= Live.start_time
        /\ Live.last_heartbeat <= now

\* C27 witness: a session started after the epoch whose heartbeat was moved
\* forward by a later tick.
C27_Witness ==
    /\ IsSome(event_state.current_session)
    /\ Live.start_time > 0
    /\ Live.last_heartbeat > Live.start_time

\* the values ActivityTracker::new is expected to construct
C28_NewTracker ==
    /\ event_state.current_session = None
    /\ event_state.is_tracking = TRUE
    /\ event_state.is_idle = FALSE
    /\ event_state.idle_threshold_seconds = 300
    /\ event_state.sessions_sent = 0
    /\ event_state.last_send_error = None
    /\ state.is_tracking = event_state.is_tracking
    /\ state.is_idle = event_state.is_idle
    /\ state.idle_threshold_seconds = event_state.idle_threshold_seconds

\* C28: a newly constructed tracker is in the initial state: no live session,
\* is_tracking = true, is_idle = false, idle threshold 300 s, sessions_sent = 0
\* and no last_send_error, with ActivityState and EventTrackerState agreeing on
\* is_tracking, is_idle and the threshold.  The two keep agreeing on is_tracking
\* and the threshold afterwards, as the setters write both under the state
\* mutex.
C28_NewTrackerIsInitial ==
    /\ C28_NewTracker
    /\ [](/\ state.is_tracking = event_state.is_tracking
          /\ state.idle_threshold_seconds = event_state.idle_threshold_seconds)

\* C28 witness: the tracker right after construction, before any command or
\* loop has run.
C28_Witness ==
    /\ now = 0
    /\ \A l \in Loops : pc[l] = "unspawned"
    /\ pc[Cmd] = "ready"
    /\ store.config = None
    /\ produced = 0
    /\ send_result = None
    /\ state.is_tracking /\ ~state.is_idle /\ state.idle_threshold_seconds = 300
    /\ event_state.sessions_sent = 0 /\ event_state.last_send_error = None

\* C30: at every tick boundary of a single event-based loop (no tick in
\* progress), is_idle = true implies current_session = None.  The converse
\* does not hold: current_session = None with is_idle = false is reachable,
\* initially and after a shutdown finalize.
C30_IdleImpliesNoSession ==
    (\A l \in Loops : ~InTick(l)) =>
        (event_state.is_idle => event_state.current_session = None)

\* C30 witness: between two ticks of the running loop the user is idle and the
\* session has been finalized.
C30_Witness ==
    \E l \in Loops :
        /\ pc[l] = "tick"
        /\ event_state.is_idle
        /\ event_state.current_session = None
        /\ produced = 1

\* C30, the state that refutes the converse: the loop's shutdown finalized
\* the live session and the tracker is not idle.
C30_NoSessionNotIdle ==
    \E l \in Loops :
        /\ pc[l] = "stopped"
        /\ produced = 1
        /\ event_state.current_session = None
        /\ ~event_state.is_idle

\* C31: when finalize_session is called concurrently from the poll loop and
\* from finalize_current_session, a live session yields at most one
\* CompletedSession: one caller takes the session, the other observes None.
\* No two tasks hold records of the same session, and a step that produces a
\* record is the one step that takes the session out of the state.
C31_Step ==
    /\ produced' <= produced + 1
    /\ produced' = produced + 1 =>
         /\ IsSome(event_state.current_session)
         /\ event_state'.current_session = None
         /\ \E p \in Procs :
              /\ session[p] = None /\ IsSome(session'[p])
              /\ parse_rfc3339(Unwrap(session'[p]).start_time) = Live.start_time
              /\ \A q \in Procs \ {p} : session'[q] = session[q]
    /\ \A p, q \in Procs :
         (p # q /\ IsSome(session'[p]) /\ IsSome(session'[q]))
           => Unwrap(session'[p]).start_time # Unwrap(session'[q]).start_time

C31_OneRecordPerSession == [][C31_Step]_vars

\* C31 witness: the command took the live session while the loop's tick was on
\* its change path; the loop's finalize_session then observed None.
C31_Witness ==
    \E l \in Loops :
        /\ pc[l] = "start_session"
        /\ session[l] = None
        /\ pc[Cmd] \in {"cmd_send", "cmd_await"}
        /\ IsSome(session[Cmd])
        /\ Unwrap(session[Cmd]).app_name # Snap(l).app_name
        /\ produced = 1
        /\ event_state.current_session = None

\* ------------------------------------------------------------ threads and mutexes
\* ActivityTracker methods called from several threads, one step per mutex
\* lock.  A thread at "rest" is in no method.
Rest(p) == pc[p] = "rest"

\* set_tracking: self.state.lock(), state.is_tracking = enabled
tracker_set_tracking_state(p, enabled) ==
    /\ Rest(p)
    /\ Free("state")
    /\ state' = [state EXCEPT !.is_tracking = enabled]
    /\ Goto(p, InSetTracking(enabled))
    /\ UNCHANGED <<now, event_state, app_state, store, activity, idle_threshold,
                   session, handed, send_result, produced, aw_server>>

\* set_tracking: self.event_state.lock(), event_state.is_tracking = enabled,
\* both guards dropped at the return
tracker_set_tracking_event(p) ==
    /\ \E enabled \in BOOLEAN :
         /\ pc[p] = InSetTracking(enabled)
         /\ event_state' = [event_state EXCEPT !.is_tracking = enabled]
    /\ \A m \in acquires(pc[p]) : Free(m)
    /\ Goto(p, "rest")
    /\ UNCHANGED <<now, state, app_state, store, activity, idle_threshold,
                   session, handed, send_result, produced, aw_server>>

\* set_idle_threshold: self.state.lock(), state.idle_threshold_seconds = seconds
tracker_set_idle_threshold_state(p, seconds) ==
    /\ Rest(p)
    /\ Free("state")
    /\ state' = [state EXCEPT !.idle_threshold_seconds = seconds]
    /\ Goto(p, InSetIdleThreshold(seconds))
    /\ UNCHANGED <<now, event_state, app_state, store, activity, idle_threshold,
                   session, handed, send_result, produced, aw_server>>

\* set_idle_threshold: self.event_state.lock(),
\* event_state.idle_threshold_seconds = seconds, both guards dropped
tracker_set_idle_threshold_event(p) ==
    /\ \E seconds \in Thresholds :
         /\ pc[p] = InSetIdleThreshold(seconds)
         /\ event_state' = [event_state EXCEPT !.idle_threshold_seconds = seconds]
    /\ \A m \in acquires(pc[p]) : Free(m)
    /\ Goto(p, "rest")
    /\ UNCHANGED <<now, state, app_state, store, activity, idle_threshold,
                   session, handed, send_result, produced, aw_server>>

\* handle_idle: the first critical section, with `drop(event_state)`
tracker_handle_idle(p) ==
    /\ Rest(p)
    /\ Free("event_state")
    /\ ~event_state.is_idle
    /\ event_state' = [event_state EXCEPT !.is_idle = TRUE]
    /\ Goto(p, "handle_idle_finalize")
    /\ UNCHANGED <<now, state, app_state, store, activity, idle_threshold,
                   session, handed, send_result, produced, aw_server>>

\* handle_idle: return self.finalize_session()
tracker_handle_idle_finalize(p) ==
    /\ pc[p] = "handle_idle_finalize"
    /\ \A m \in acquires(pc[p]) : Free(m)
    /\ event_state' = finalize_taken(event_state)
    /\ produced' = IF IsSome(finalize_session(event_state, now))
                   THEN produced + 1 ELSE produced
    /\ Goto(p, "rest")
    /\ UNCHANGED <<now, state, app_state, store, activity, idle_threshold,
                   session, handed, send_result, aw_server>>

\* handle_active: the first critical section, with `drop(event_state)`
tracker_handle_active(p) ==
    /\ Rest(p)
    /\ Free("event_state")
    /\ event_state.is_idle
    /\ event_state' = [event_state EXCEPT !.is_idle = FALSE]
    /\ Goto(p, "handle_active_start")
    /\ UNCHANGED <<now, state, app_state, store, activity, idle_threshold,
                   session, handed, send_result, produced, aw_server>>

\* handle_active: self.start_session(activity)
tracker_handle_active_start(p, a) ==
    /\ pc[p] = "handle_active_start"
    /\ \A m \in acquires(pc[p]) : Free(m)
    /\ event_state' = start_session(event_state, a, now)
    /\ Goto(p, "rest")
    /\ UNCHANGED <<now, state, app_state, store, activity, idle_threshold,
                   session, handed, send_result, produced, aw_server>>

\* update_activity called on its own: one critical section of the state mutex
tracker_update_activity(p, a) ==
    /\ Rest(p)
    /\ Free("state")
    /\ state' = update_activity(state, a)
    /\ UNCHANGED <<now, event_state, app_state, store, pc, activity,
                   idle_threshold, session, handed, send_result, produced,
                   aw_server>>

\* the step that completes the method thread p is in
ThreadFinish(p) ==
    \/ tracker_set_tracking_event(p)
    \/ tracker_set_idle_threshold_event(p)
    \/ tracker_handle_idle_finalize(p)
    \/ \E a \in Snapshots : tracker_handle_active_start(p, a)

InitThreads ==
    /\ now \in {0, TicksPerSec}
    /\ state = ActivityState_default
    /\ event_state \in
         {EventTrackerState_new}
           \cup {start_session(EventTrackerState_new, a, 0) : a \in Snapshots}
    /\ app_state = AppState_default
    /\ store = [config |-> None]
    /\ pc = [p \in Procs |-> "rest"]
    /\ activity = [l \in Loops |-> None]
    /\ idle_threshold = [l \in Loops |-> 0]
    /\ session = [p \in Procs |-> None]
    /\ handed = [p \in Procs |-> 0]
    /\ send_result = None
    /\ produced = 0
    /\ aw_server_new

NextThreads ==
    \/ \E p \in Procs, enabled \in BOOLEAN : tracker_set_tracking_state(p, enabled)
    \/ \E p \in Procs : tracker_set_tracking_event(p)
    \/ \E p \in Procs, seconds \in Thresholds : tracker_set_idle_threshold_state(p, seconds)
    \/ \E p \in Procs : tracker_set_idle_threshold_event(p)
    \/ \E p \in Procs : tracker_handle_idle(p)
    \/ \E p \in Procs : tracker_handle_idle_finalize(p)
    \/ \E p \in Procs : tracker_handle_active(p)
    \/ \E p \in Procs, a \in Snapshots : tracker_handle_active_start(p, a)
    \/ \E p \in Procs, a \in Snapshots : tracker_update_activity(p, a)

SpecThreads == InitThreads /\ [][NextThreads]_vars

\* C32: no interleaving of ActivityTracker operations called from different
\* threads deadlocks.  The two mutexes are nested only in the order state then
\* event_state, no thread locks a mutex it holds, and a thread inside a method
\* whose next lock does not return waits for a thread that can complete.
C32_NoDeadlock ==
    \A p \in Procs :
        /\ \A m \in acquires(pc[p]) :
             /\ m \notin guards_held(pc[p])
             /\ "event_state" \in guards_held(pc[p]) => m # "state"
        /\ ~Rest(p) =>
             \/ ENABLED ThreadFinish(p)
             \/ \E q \in Procs \ {p} :
                  /\ acquires(pc[p]) \cap guards_held(pc[q]) # {}
                  /\ ENABLED ThreadFinish(q)

\* C32 witness: one thread is inside set_tracking holding the state guard,
\* another is between handle_idle's two critical sections, a third between
\* handle_active's.
C32_Witness ==
    \E p, q, r \in Procs :
        /\ pc[p] \in SetterPcs
        /\ pc[q] = "handle_idle_finalize"
        /\ pc[r] = "handle_active_start"

\* C34: whenever no set_tracking or set_idle_threshold call is in progress,
\* the duplicated configuration fields agree: ActivityState.is_tracking =
\* EventTrackerState.is_tracking and ActivityState.idle_threshold_seconds =
\* EventTrackerState.idle_threshold_seconds, also when several threads call the
\* setters concurrently.
C34_ConfigCopiesAgree ==
    (\A p \in Procs : pc[p] \notin SetterPcs)
      => /\ state.is_tracking = event_state.is_tracking
         /\ state.idle_threshold_seconds = event_state.idle_threshold_seconds

\* C34 witness: both setters have run to completion and changed both copies,
\* while other threads are inside handle_idle and handle_active.
C34_Witness ==
    /\ \A p \in Procs : pc[p] \notin SetterPcs
    /\ \E p \in Procs : ~Rest(p)
    /\ ~state.is_tracking /\ ~event_state.is_tracking
    /\ state.idle_threshold_seconds # DefaultIdleThreshold
    /\ event_state.idle_threshold_seconds # DefaultIdleThreshold

\* C33: after every fully processed tick of the event-based loop the two idle
\* flags agree: ActivityState.is_idle (written by update_activity) equals
\* EventTrackerState.is_idle (written by handle_idle / start_session), for any
\* sequence of ticks and any interleaved set_idle_threshold calls.
C33_Step(l) ==
    (pc[l] = "update_activity" /\ pc'[l] = "tick")
      => state'.is_idle = event_state'.is_idle

C33_IdleFlagsAgreeAfterTick == [][\A l \in Loops : C33_Step(l)]_vars

\* C35: the is_idle value sent in the per-tick real-time record equals the
\* tracker's idle decision for that snapshot: it is true iff idle_seconds >=
\* the configured idle threshold, for every configured threshold value.
C35_RealtimeIdleMatchesDecision ==
    \A l \in Loops :
        pc[l] = "realtime_send"
          => realtime_payload(Snap(l), now).is_idle
               = user_is_idle(Snap(l), idle_threshold[l])

\* ------------------------------------------------------------ zero threshold
\* idle thresholds of a configuration, the least u64 among them
ZeroThresholds == {0, DefaultIdleThreshold}

\* A single event-based poll loop at a time, started with a threshold of zero
\* or with the default, under all commands.
NextZero ==
    \/ \E seconds \in ZeroThresholds, saved \in BOOLEAN :
          /\ \A l \in Loops : ~LoopLive(l)
          /\ start_event_based_tracking(PollInterval, seconds, saved)
    \/ Lifecycle
    \/ \E seconds \in ZeroThresholds : set_idle_threshold_command(seconds)
    \/ finalize_current_session
    \/ finalize_current_session_send
    \/ \E r \in SendOutcomes : finalize_current_session_await(r)
    \/ \E l \in Loops : LoopStep(l, ProbeResults)
    \/ Advance

SpecZero == Init /\ [][NextZero]_vars

\* C36: with an idle threshold of 0 every snapshot counts as idle: the
\* event-based loop started with it never takes the active path, never starts
\* a session and never produces a CompletedSession, and is_idle is true at the
\* end of its first processed tick and stays true.
C36_Step(l) ==
    (LoopLive(l) /\ idle_threshold[l] = 0) =>
        /\ pc'[l] \notin {"has_changed", "heartbeat", "change_finalize",
                          "change_send", "change_await", "start_session",
                          "handle_active", "active_start"}
        /\ event_state'.current_session = None
        /\ produced' = produced
        /\ event_state.is_idle => event_state'.is_idle
        /\ pc'[l] \in TickTail => event_state'.is_idle

C36_ZeroThresholdAlwaysIdle == [][\A l \in Loops : C36_Step(l)]_vars

\* C36 witness: a loop started with threshold 0 has processed a snapshot of a
\* user who touched the keyboard this very second, and the tracker is idle.
C36_Witness ==
    \E l \in Loops :
        /\ pc[l] = "update_activity"
        /\ idle_threshold[l] = 0
        /\ state.idle_threshold_seconds = 0
        /\ Snap(l).idle_seconds = 0
        /\ event_state.is_idle
        /\ event_state.current_session = None

\* ------------------------------------------------------------ pause and resume
\* AppStateWrapper::set_tracking
AppStateWrapper_set_tracking(as, active) ==
    [as EXCEPT !.tracking_active = active, !.paused = ~active]

\* toggle_pause that flips the paused flag only
toggle_pause_flag_only(as) == [as EXCEPT !.paused = ~as.paused]

\* AppStateWrapper::toggle_pause: the AppState it leaves
toggle_pause(as) ==
    LET paused == ~as.paused
    IN  [as EXCEPT !.paused = paused, !.tracking_active = ~paused]

\* pause_tracking that also switches the tracker off
pause_tracking_stops_tracker ==
    /\ Running
    /\ app_state' = AppStateWrapper_set_tracking(app_state, FALSE)
    /\ set_tracking(FALSE)
    /\ UNCHANGED <<now, store, pc, activity, idle_threshold, session, handed,
                   send_result, produced, aw_server>>

\* pause_tracking (the command)
pause_tracking ==
    /\ Running
    /\ app_state' = AppStateWrapper_set_tracking(app_state, FALSE)
    /\ UNCHANGED <<now, state, event_state, store, pc, activity, idle_threshold,
                   session, handed, send_result, produced, aw_server>>

\* resume_tracking (the command)
resume_tracking ==
    /\ Running
    /\ app_state' = AppStateWrapper_set_tracking(app_state, TRUE)
    /\ UNCHANGED <<now, state, event_state, store, pc, activity, idle_threshold,
                   session, handed, send_result, produced, aw_server>>

\* toggle_tracking (the command)
toggle_tracking ==
    /\ Running
    /\ app_state' = toggle_pause(app_state)
    /\ UNCHANGED <<now, state, event_state, store, pc, activity, idle_threshold,
                   session, handed, send_result, produced, aw_server>>

\* handle_menu_event, the tray's "pause_tracking" and "resume_tracking" items
tray_set_tracking(active) ==
    /\ Running
    /\ app_state' = AppStateWrapper_set_tracking(app_state, active)
    /\ UNCHANGED <<now, state, event_state, store, pc, activity, idle_threshold,
                   session, handed, send_result, produced, aw_server>>

\* A single event-based poll loop at a time with the default threshold, the
\* commands that switch the tracker, and the pause, resume and toggle commands
\* and tray items.  The clock steps by whole seconds.
NextPause ==
    \/ \E saved \in BOOLEAN :
          /\ \A l \in Loops : ~LoopLive(l)
          /\ start_event_based_tracking(PollInterval, DefaultIdleThreshold, saved)
    \/ \E enabled \in BOOLEAN : set_native_tracking(enabled)
    \/ \E saved \in BOOLEAN : stop_activity_polling(saved)
    \/ pause_tracking
    \/ resume_tracking
    \/ toggle_tracking
    \/ \E active \in BOOLEAN : tray_set_tracking(active)
    \/ \E l \in Loops : LoopStep(l, ProbeResultsProcess)
    \/ AdvanceSecond

SpecPause == Init /\ [][NextPause]_vars

\* C37: in AppState, paused = not tracking_active in every reachable state
\* under any sequence of AppStateWrapper::set_tracking and toggle_pause calls,
\* and two consecutive toggle_pause calls restore the original pair of values.
C37_PausedIsNotActive ==
    /\ app_state.paused = ~app_state.tracking_active
    /\ toggle_pause(app_state).paused = ~toggle_pause(app_state).tracking_active
    /\ toggle_pause(app_state).paused # app_state.paused
    /\ toggle_pause(toggle_pause(app_state)).paused = app_state.paused
    /\ toggle_pause(toggle_pause(app_state)).tracking_active = app_state.tracking_active

\* C37 witness: tracking is paused in AppState.
C37_Witness ==
    /\ app_state.paused
    /\ ~app_state.tracking_active
    /\ \A l \in Loops : ~LoopLive(l)

\* C38: the pause_tracking, resume_tracking and toggle_tracking commands and
\* the tray's pause and resume items change only AppState.tracking_active and
\* AppState.paused: the tracker's is_tracking flags, current_session and is_idle
\* are left unchanged, and a running event-based loop keeps processing ticks
\* while AppState.paused is true.
C38_Step ==
    /\ (\/ app_state'.tracking_active # app_state.tracking_active
        \/ app_state'.paused # app_state.paused)
         => /\ app_state'.is_idle = app_state.is_idle
            /\ UNCHANGED <<state, event_state, store, pc, activity, idle_threshold,
                           session, handed, send_result, produced>>
    /\ \A l \in Loops :
         (app_state.paused /\ StepOf(l) /\ state.is_tracking) =>
             /\ pc[l] = "tick" => pc'[l] = "probe"
             /\ (pc[l] = "probe" /\ IsSome(activity'[l]))
                  => pc'[l] \in {"handle_idle", "has_changed"}

C38_PauseLeavesTrackerAlone == [][C38_Step]_vars

\* C38 witness: tracking was paused before the live session began, and the
\* loop is at the end of a tick that it processed for that session.
C38_Witness ==
    \E l \in Loops :
        /\ pc[l] = "update_activity"
        /\ app_state.paused
        /\ ~app_state.tracking_active
        /\ state.is_tracking /\ event_state.is_tracking
        /\ IsSome(event_state.current_session)
        /\ Live.last_heartbeat > Live.start_time

\* ------------------------------------------------------------ handle_active in one loop
\* C40: in an execution of a single event-based loop handle_active is never
\* entered with is_idle = true: whenever a tick stands before the call the flag
\* is false, and the call starts no session and overwrites none: it leaves
\* EventTrackerState as it is and returns to the tick.
C40_Step(l) ==
    pc[l] = "handle_active" =>
        /\ ~event_state.is_idle
        /\ StepOf(l) => /\ event_state' = event_state
                        /\ pc'[l] = "update_ui"

C40_HandleActiveNeverIdle == [][\A l \in Loops : C40_Step(l)]_vars

\* C40 witness: the tick before took the idle branch (the flag the UI shows is
\* still set), this one is active: start_session has just started a session and
\* cleared is_idle, and the tick stands before handle_active.
C40_Witness ==
    \E l \in Loops :
        /\ pc[l] = "handle_active"
        /\ app_state.is_idle
        /\ ~event_state.is_idle
        /\ IsSome(event_state.current_session)
        /\ Live.start_time = now
        /\ ~user_is_idle(Snap(l), idle_threshold[l])

\* ------------------------------------------------------------ aw-server process slot
\* everything but the aw-server slot
tracker_vars ==
    <<now, state, event_state, app_state, store, pc, activity, idle_threshold,
      session, handed, send_result, produced>>

\* Child::try_wait on the tracked child: Ok(None) while it runs, its status
\* once it has exited, and in both cases possibly an error of the status check.
\* "-" with an empty slot, where try_wait is not called.
try_wait(process, ch) ==
    IF ~IsSome(process) THEN {"-"}
    ELSE IF ch[Unwrap(process)] = "running" THEN {"Ok(None)", "Err"}
         ELSE {"Ok(Some)", "Err"}

\* get_aw_server_path, app_data_dir, create_dir_all and Command::spawn: the
\* process is spawned, or one of them fails
LaunchOutcomes == {"spawned", "binary not found", "spawn failed"}
\* the launches of the runs: at most MaxChildren processes are spawned
Launches(ch) ==
    IF \E c \in Children : ch[c] = "unspawned"
    THEN LaunchOutcomes ELSE LaunchOutcomes \ {"spawned"}
\* Child::kill and Child::wait
KillOutcomes == {"Ok", "Err"}
WaitOutcomes == {"Ok", "Err"}

\* the process a spawn creates: the first not yet spawned
next_child(ch) == CHOOSE c \in Children :
    ch[c] = "unspawned" /\ \A d \in Children : ch[d] = "unspawned" => c <= d

\* start_aw_server: the slot, the processes and the result it leaves
start_aw_server_outcome(process, ch, wait, launch) ==
    IF IsSome(process) /\ wait = "Ok(None)"
    THEN [process |-> process, children |-> ch, result |-> "Ok", spawned |-> FALSE]
    ELSE IF launch # "spawned"
         THEN [process |-> None, children |-> ch, result |-> "Err",
               spawned |-> FALSE]
         ELSE [process |-> Some(next_child(ch)),
               children |-> [ch EXCEPT ![next_child(ch)] = "running"],
               result |-> "Ok", spawned |-> TRUE]

\* stop_aw_server that takes the child out of the slot before killing it
stop_aw_server_takes(process, ch, kill, wait) ==
    IF ~IsSome(process)
    THEN [process |-> None, children |-> ch, result |-> "Ok"]
    ELSE IF kill = "Err"
         THEN [process |-> None, children |-> ch, result |-> "Err"]
         ELSE [process |-> None,
               children |-> [ch EXCEPT ![Unwrap(process)] = "exited"],
               result |-> IF wait = "Err" THEN "Err" ELSE "Ok"]

\* stop_aw_server: the slot, the processes and the result it leaves
stop_aw_server_outcome(process, ch, kill, wait) ==
    IF ~IsSome(process)
    THEN [process |-> None, children |-> ch, result |-> "Ok"]
    ELSE IF kill = "Err"
         THEN [process |-> process, children |-> ch, result |-> "Err"]
         ELSE IF wait = "Err"
              THEN [process |-> process,
                    children |-> [ch EXCEPT ![Unwrap(process)] = "exited"],
                    result |-> "Err"]
              ELSE [process |-> None,
                    children |-> [ch EXCEPT ![Unwrap(process)] = "exited"],
                    result |-> "Ok"]

\* is_aw_server_running: the slot it leaves and the answer
is_aw_server_running_outcome(process, wait) ==
    IF IsSome(process) /\ wait = "Ok(None)"
    THEN [process |-> process, result |-> TRUE]
    ELSE [process |-> None, result |-> FALSE]

\* start_aw_server
start_aw_server(wait, launch) ==
    LET out == start_aw_server_outcome(AW_SERVER_PROCESS, children, wait, launch)
    IN  /\ Running
        /\ wait \in try_wait(AW_SERVER_PROCESS, children)
        /\ launch \in Launches(children)
        /\ AW_SERVER_PROCESS' = out.process
        /\ children' = out.children
        /\ aw_call' = Some([op |-> "start_aw_server", result |-> out.result])
        /\ UNCHANGED tracker_vars

\* stop_aw_server
stop_aw_server(kill, wait) ==
    LET out == stop_aw_server_outcome(AW_SERVER_PROCESS, children, kill, wait)
    IN  /\ Running
        /\ AW_SERVER_PROCESS' = out.process
        /\ children' = out.children
        /\ aw_call' = Some([op |-> "stop_aw_server", result |-> out.result])
        /\ UNCHANGED tracker_vars

\* is_aw_server_running
is_aw_server_running(wait) ==
    LET out == is_aw_server_running_outcome(AW_SERVER_PROCESS, wait)
    IN  /\ Running
        /\ wait \in try_wait(AW_SERVER_PROCESS, children)
        /\ AW_SERVER_PROCESS' = out.process
        /\ aw_call' = Some([op |-> "is_aw_server_running", result |-> out.result])
        /\ UNCHANGED <<children, tracker_vars>>

\* a running aw-server-rust process exits on its own
child_exits(c) ==
    /\ children[c] = "running"
    /\ children' = [children EXCEPT ![c] = "exited"]
    /\ UNCHANGED <<AW_SERVER_PROCESS, aw_call, tracker_vars>>

\* The aw-server functions under any sequence of calls (the setup thread of
\* main, the start, stop and status commands), with the pause commands and
\* quit_app; an aw-server-rust process may exit at any time, also after the
\* program has.
NextAw ==
    \/ \E wait \in {"-", "Ok(None)", "Ok(Some)", "Err"}, launch \in LaunchOutcomes :
          start_aw_server(wait, launch)
    \/ \E kill \in KillOutcomes, wait \in WaitOutcomes : stop_aw_server(kill, wait)
    \/ \E wait \in {"-", "Ok(None)", "Ok(Some)", "Err"} : is_aw_server_running(wait)
    \/ \E c \in Children : child_exits(c)
    \/ pause_tracking
    \/ resume_tracking
    \/ toggle_tracking
    \/ quit_app

SpecAw == Init /\ [][NextAw]_vars

\* C39: the aw-server process slot tracks at most one child at a time.
\* start_aw_server while the tracked child is still running spawns nothing and
\* returns Ok; a slot whose child has exited is cleared before a new spawn;
\* after stop_aw_server returns Ok the slot is empty and is_aw_server_running
\* is false; stop with an empty slot is an Ok no-op; a failed kill leaves the
\* slot unchanged.
C39_OneTrackedChild ==
    LET process == AW_SERVER_PROCESS
        tracked == Unwrap(AW_SERVER_PROCESS)
    IN
    /\ IsSome(process) => tracked \in Children /\ children[tracked] # "unspawned"
    /\ (IsSome(process) /\ "Ok(None)" \in try_wait(process, children)) =>
         \A launch \in Launches(children) :
            LET out == start_aw_server_outcome(process, children, "Ok(None)", launch)
            IN  /\ out.process = process /\ out.children = children
                /\ out.result = "Ok" /\ ~out.spawned
    /\ (IsSome(process) /\ children[tracked] = "exited") =>
         \A wait \in try_wait(process, children), launch \in Launches(children) :
            LET out == start_aw_server_outcome(process, children, wait, launch)
            IN  /\ out.process # process
                /\ out.process = None \/ children[Unwrap(out.process)] = "unspawned"
    /\ \A kill \in KillOutcomes, wait \in WaitOutcomes :
         LET out == stop_aw_server_outcome(process, children, kill, wait)
         IN  /\ out.result = "Ok" =>
                  /\ out.process = None
                  /\ \A w \in try_wait(out.process, out.children) :
                       is_aw_server_running_outcome(out.process, w).result = FALSE
             /\ ~IsSome(process) =>
                  out = [process |-> None, children |-> children, result |-> "Ok"]
             /\ (IsSome(process) /\ kill = "Err") =>
                  out.process = process /\ out.result = "Err"
    /\ (IsSome(aw_call) /\ Unwrap(aw_call).op = "stop_aw_server"
          /\ Unwrap(aw_call).result = "Ok") => process = None

\* C39 witness: the first child exited, a second one was spawned into the
\* cleared slot, and stop_aw_server has returned Ok.
C39_Witness ==
    /\ IsSome(aw_call)
    /\ Unwrap(aw_call).op = "stop_aw_server"
    /\ Unwrap(aw_call).result = "Ok"
    /\ AW_SERVER_PROCESS = None
    /\ \A c \in Children : children[c] = "exited"

====
